---- MODULE Spec2Model ----
(***************************************************************************)
(* fast-fast: a Fastify application (buildApp) with shared and             *)
(* encapsulated plugins, lifecycle hooks, decorators, CRUD routes,         *)
(* JSON-schema validation and schema-driven response serialization.        *)
(*                                                                         *)
(* The repository registers plugins, hooks and routes; the request engine  *)
(* that runs them (scope tree, router, hook runner, reply.send, validator, *)
(* serializer) is the host framework.  The engine is modelled here as the  *)
(* environment in which the repository's hooks and handlers run.           *)
(***************************************************************************)
EXTENDS Integers, Sequences, FiniteSets, TLC

VARIABLES
  bootpc,       \* next registration step of buildApp
  scopes,       \* encapsulation contexts created so far
  parent,       \* scope -> parent scope ("none" for the root)
  prefix,       \* scope -> mount prefix (sequence of literal segments)
  caps,         \* decorators: set of [scope, name, val]
  hooks,        \* registered hooks in registration order: [scope, stage, id]
  routes,       \* route table in registration order
  pc,           \* lifecycle position of the request in flight
  request,      \* Request Context of the request in flight
  reply,        \* Response Context of the request in flight
  trace,        \* stages the request has executed, in order
  hooklog,      \* hook functions the request has executed, in order
  pendingDone,  \* "none" | "sync" | "async": a hook whose done() is still to run
  delivered,    \* what the transport handed to the client for this request
  sentAt,       \* the stage in which reply.send was first called ("" before that)
  nreq,         \* requests received so far
  posts,        \* routing-examples.ts module-level store
  users,        \* users.ts module-level store
  secret,       \* the value of the sensitive fields of the serialization records
  parked,       \* contexts of the other request in flight, suspended at an await
  closing,      \* app.close() was called
  closeQ,       \* onClose functions still to run
  closelog      \* onClose functions and resource releases that ran, in order

bootVars == <<bootpc, scopes, parent, prefix, caps, hooks, routes>>
reqVars  == <<pc, request, reply, trace, hooklog, pendingDone, delivered, sentAt, nreq>>
vars == <<bootpc, scopes, parent, prefix, caps, hooks, routes,
          pc, request, reply, trace, hooklog, pendingDone, delivered, sentAt, nreq,
          posts, users, secret, parked, closing, closeQ, closelog>>
sysVars == <<parked, closing, closeQ, closelog>>

\* ------------------------------------------------------------------ bounds
MaxRequests == 2
MaxTime == 2
MaxBenchItems == 2
MaxFairRequests == 1

Times == 1..MaxTime

\* ----------------------------------------------------------- small helpers
Range(s) == {s[i] : i \in 1..Len(s)}

EmptyObj == [k \in {} |-> ""]

Lit(s) == [k |-> "lit", v |-> s]
Param(n) == [k |-> "param", v |-> n]
Wild == [k |-> "wild", v |-> "*"]

NotFound == "CapabilityNotFoundError"

\* ------------------------------------------------------ capability registry
\* Ancestors of a scope, nearest first, the scope itself included.
RECURSIVE Chain(_, _)
Chain(par, s) == IF s = "none" THEN <<>> ELSE <<s>> \o Chain(par, par[s])

IsDescendantOrSelf(par, s, anc) == anc \in Range(Chain(par, s))

Local(cs, s, n) == {c \in cs : c.scope = s /\ c.name = n}

\* Lookup of a decorator: own map first, then the parent chain.
RECURSIVE ResolveIn(_, _, _, _)
ResolveIn(cs, par, s, n) ==
  IF s = "none" THEN NotFound
  ELSE IF Local(cs, s, n) # {} THEN (CHOOSE c \in Local(cs, s, n) : TRUE).val
  ELSE ResolveIn(cs, par, par[s], n)

Resolve(s, n) == ResolveIn(caps, parent, s, n)

\* resolved full path of a scope: every ancestor's prefix, root first
RECURSIVE FullPrefix(_, _, _)
FullPrefix(par, pre, s) ==
  IF s = "none" THEN <<>> ELSE FullPrefix(par, pre, par[s]) \o pre[s]

\* ------------------------------------------------------- plugin wrapping
\* export default fp(decoratorsPlugin): it runs on the registering scope
DecoratorsPluginWrapped_Unwrapped == FALSE
DecoratorsPluginWrapped == TRUE
\* encapsulatedPlugin is a plain function: register creates a child scope
EncapsulatedPluginWrapped_Fp == TRUE
EncapsulatedPluginWrapped == FALSE

\* app.register(..., {prefix: '/api'})
ApiPrefix_Empty == <<>>
ApiPrefix == <<"api">>

\* ----------------------------------------------------------- registrations
Dec(n, v) == [name |-> n, val |-> v]
Hook(st, id) == [stage |-> st, id |-> id]
Route(ms, path, h, pre, sch, resp) ==
  [methods |-> ms, path |-> path, handler |-> h, preHandler |-> pre,
   schema |-> sch, response |-> resp]

\* decorators-example.ts
UserDefault == [isNull |-> TRUE, id |-> 0, name |-> "", role |-> ""]
StartTimeDefault == 0
DecoratorsDecorators ==
  {Dec("config", "config-object"), Dec("authenticate", "authenticate-fn"),
   Dec("request.user", "null"), Dec("request.startTime", "0"),
   Dec("reply.success", "success-fn"), Dec("reply.error", "error-fn")}
\* lifecycle-example.ts
LifecycleHooks ==
  <<Hook("onRequest", "lifecycle.onRequest"),
    Hook("preParsing", "lifecycle.preParsing"),
    Hook("preValidation", "lifecycle.preValidation"),
    Hook("preHandler", "lifecycle.preHandler"),
    Hook("preSerialization", "lifecycle.preSerialization"),
    Hook("onSend", "lifecycle.onSend"),
    Hook("onResponse", "lifecycle.onResponse"),
    Hook("onError", "lifecycle.onError"),
    Hook("onReady", "lifecycle.onReady"),
    Hook("onClose", "lifecycle.onClose")>>
\* users.ts
UsersRoutes ==
  <<Route({"GET"}, <<>>, "users.list", "none", "none", "none"),
    Route({"GET"}, <<Param("id")>>, "users.get", "none", "none", "none"),
    Route({"POST"}, <<>>, "users.create", "none", "none", "none")>>
\* auth-example.ts
AuthRoutes ==
  <<Route({"GET"}, <<Lit("public")>>, "auth.public", "none", "none", "none"),
    Route({"GET"}, <<Lit("protected")>>, "auth.protected", "protected.preHandler", "none", "none"),
    Route({"GET"}, <<Lit("error-example")>>, "auth.errorExample", "none", "none", "none")>>
\* lifecycle-test.ts
LifecycleTestRoutes ==
  <<Route({"GET"}, <<Lit("normal")>>, "lifecycle.normal", "none", "none", "none"),
    Route({"GET"}, <<Lit("error")>>, "lifecycle.error", "none", "none", "none"),
    Route({"GET"}, <<Lit("early-response")>>, "lifecycle.early", "earlyResponse.preHandler",
          "none", "none")>>
\* routing-examples.ts
RoutingRoutes ==
  <<Route({"GET"}, <<Lit("posts")>>, "posts.list", "none", "none", "none"),
    Route({"POST"}, <<Lit("posts")>>, "posts.create", "none", "none", "none"),
    Route({"PUT"}, <<Lit("posts"), Param("id")>>, "posts.put", "none", "none", "none"),
    Route({"PATCH"}, <<Lit("posts"), Param("id")>>, "posts.patch", "none", "none", "none"),
    Route({"DELETE"}, <<Lit("posts"), Param("id")>>, "posts.delete", "none", "none", "none"),
    Route({"GET"}, <<Lit("posts"), Param("id")>>, "posts.get", "none", "none", "none"),
    Route({"GET"}, <<Lit("archive"), Param("year"), Param("month"), Param("day")>>,
          "archive", "none", "none", "none"),
    Route({"GET"}, <<Lit("posts-query")>>, "posts.query", "none", "none", "none"),
    Route({"GET"}, <<Lit("files"), Wild>>, "files", "none", "none", "none"),
    Route({"GET"}, <<Lit("full-options")>>, "fullOptions", "fullOptions.preHandler",
          "fullOptionsQuery", "fullOptions"),
    Route({"GET", "HEAD"}, <<Lit("ping")>>, "ping", "none", "none", "none")>>
\* validation-examples.ts
ValidationRoutes ==
  <<Route({"POST"}, <<Lit("users")>>, "validation.createUser", "none", "createUser", "none"),
    Route({"GET"}, <<Lit("users")>>, "validation.listUsers", "none", "querystring", "none")>>
\* serialization-examples.ts
SerializationRoutes ==
  <<Route({"GET"}, <<Lit("users")>>, "ser.users", "none", "serUsersQuery", "usersList"),
    Route({"GET"}, <<Lit("users"), Param("id")>>, "ser.user", "none", "serUserParams", "byStatus"),
    Route({"GET"}, <<Lit("benchmark")>>, "ser.benchmark", "none", "none", "benchmark"),
    Route({"GET"}, <<Lit("no-schema")>>, "ser.noSchema", "none", "none", "none"),
    Route({"GET"}, <<Lit("nested")>>, "ser.nested", "none", "none", "nested")>>

\* instance.register(plugin, {prefix}): a wrapped plugin runs on the
\* registering scope, any other plugin on a new child scope; decorators,
\* hooks and routes of the plugin body land on that scope.
Install(par, child, wrapped, pre, decs, hks, rts) ==
  LET tgt == IF wrapped THEN par ELSE child
      scopes2 == scopes \cup {tgt}
      parent2 == [s \in scopes2 |-> IF s \in scopes THEN parent[s] ELSE par]
      prefix2 == [s \in scopes2 |-> IF s \in scopes THEN prefix[s] ELSE pre]
  IN /\ scopes' = scopes2
     /\ parent' = parent2
     /\ prefix' = prefix2
     /\ caps' = caps \cup {[scope |-> tgt, name |-> d.name, val |-> d.val] : d \in decs}
     /\ hooks' = hooks \o [i \in 1..Len(hks) |->
                             [scope |-> tgt, stage |-> hks[i].stage, id |-> hks[i].id]]
     /\ routes' = routes \o [i \in 1..Len(rts) |->
                               [scope |-> tgt, methods |-> rts[i].methods,
                                path |-> rts[i].path,
                                full |-> [j \in 1..Len(FullPrefix(parent2, prefix2, tgt)) |->
                                            Lit(FullPrefix(parent2, prefix2, tgt)[j])]
                                         \o rts[i].path,
                                handler |-> rts[i].handler,
                                preHandler |-> rts[i].preHandler,
                                schema |-> rts[i].schema,
                                response |-> rts[i].response]]

BootStep(k) ==
  /\ bootpc = k
  /\ bootpc' = k + 1
  /\ UNCHANGED <<reqVars, posts, users, secret, sysVars>>

RegisterSharedPlugin ==
  /\ BootStep(0)
  /\ Install("root", "shared", TRUE, <<>>,
             {Dec("sharedValue", "shared-value"), Dec("utility", "utility-object")},
             <<>>, <<>>)

RegisterDatabasePlugin ==
  /\ BootStep(1)
  /\ Install("root", "database", TRUE, <<>>, {Dec("db", "db-client")},
             <<Hook("onClose", "database.onClose")>>, <<>>)

RegisterDecoratorsPlugin ==
  /\ BootStep(2)
  /\ Install("root", "decorators", DecoratorsPluginWrapped, <<>>, DecoratorsDecorators,
             <<>>, <<>>)

RegisterLifecyclePlugin ==
  /\ BootStep(3)
  /\ Install("root", "lifecyclePlugin", TRUE, <<>>, {}, LifecycleHooks, <<>>)

RegisterRootRoute ==
  /\ BootStep(4)
  /\ Install("root", "root", TRUE, <<>>, {}, <<>>,
             <<Route({"GET"}, <<>>, "root", "none", "none", "none")>>)

RegisterApiScope ==
  /\ BootStep(5)
  /\ Install("root", "api", FALSE, ApiPrefix, {}, <<>>, <<>>)

RegisterEncapsulatedPlugin ==
  /\ BootStep(6)
  /\ Install("api", "encapsulated", EncapsulatedPluginWrapped, <<>>,
             {Dec("encapsulatedValue", "encapsulated-value")}, <<>>,
             <<Route({"GET"}, <<Lit("encapsulated")>>, "encapsulated", "none", "none",
                     "none")>>)

RegisterChildPlugin ==
  /\ BootStep(7)
  /\ Install("api", "child", FALSE, <<>>, {}, <<>>,
             <<Route({"GET"}, <<Lit("child")>>, "child", "none", "none", "none")>>)

RegisterTestEncapsulation ==
  /\ BootStep(8)
  /\ Install("root", "root", TRUE, <<>>, {}, <<>>,
             <<Route({"GET"}, <<Lit("test-encapsulation")>>, "testEncapsulation", "none",
                     "none", "none")>>)

RegisterUserRoutes ==
  /\ BootStep(9)
  /\ Install("root", "users", FALSE, <<"users">>, {},
             <<Hook("onRequest", "users.onRequest")>>, UsersRoutes)

RegisterAuthRoutes ==
  /\ BootStep(10)
  /\ Install("root", "auth", FALSE, <<"auth">>, {},
             <<Hook("onRequest", "auth.onRequest")>>, AuthRoutes)

RegisterLifecycleTestRoutes ==
  /\ BootStep(11)
  /\ Install("root", "lifecycle", FALSE, <<"lifecycle">>, {}, <<>>, LifecycleTestRoutes)

RegisterRoutingExamples ==
  /\ BootStep(12)
  /\ Install("root", "routing", FALSE, <<"routing">>, {}, <<>>, RoutingRoutes)

\* the validation and serialization examples are mounted at the prefixes
\* their own documentation gives; fastify.setErrorHandler of the validation
\* plugin is kept as a scoped entry, resolved like a decorator
RegisterValidationExamples ==
  /\ BootStep(13)
  /\ Install("root", "validation", FALSE, <<"validation">>,
             {Dec("errorHandler", "validation.errorHandler")}, <<>>, ValidationRoutes)

RegisterSerializationExamples ==
  /\ BootStep(14)
  /\ Install("root", "serialization", FALSE, <<"serialization">>, {}, <<>>,
             SerializationRoutes)

BootDone == 15
Ready == bootpc = BootDone

\* ------------------------------------------------------------------ router
RECURSIVE PathMatches(_, _)
PathMatches(pat, path) ==
  IF pat = <<>> THEN path = <<>>
  ELSE IF Head(pat).k = "wild" THEN Len(path) >= 1
  ELSE /\ path # <<>>
       /\ (Head(pat).k = "lit" => Head(path) = Head(pat).v)
       /\ PathMatches(Tail(pat), Tail(path))

\* static segments win over parameters, parameters over the wildcard,
\* decided at the first position where two patterns differ in kind
RECURSIVE MoreSpecific(_, _)
MoreSpecific(a, b) ==
  LET SegRank(seg) == IF seg.k = "lit" THEN 0 ELSE IF seg.k = "param" THEN 1 ELSE 2
  IN IF a = <<>> \/ b = <<>> THEN FALSE
     ELSE IF SegRank(Head(a)) # SegRank(Head(b)) THEN SegRank(Head(a)) < SegRank(Head(b))
     ELSE MoreSpecific(Tail(a), Tail(b))

\* index of the matched route, 0 when no route matches (the 404 route)
MatchIn(rts, method, path) ==
  LET cs == {i \in 1..Len(rts) : method \in rts[i].methods /\ PathMatches(rts[i].full, path)}
  IN IF cs = {} THEN 0
     ELSE CHOOSE i \in cs : \A j \in cs \ {i} : MoreSpecific(rts[i].full, rts[j].full)

Match(method, path) == MatchIn(routes, method, path)

RECURSIVE JoinPath(_)
JoinPath(segs) ==
  IF segs = <<>> THEN ""
  ELSE IF Len(segs) = 1 THEN Head(segs)
  ELSE Head(segs) \o "/" \o JoinPath(Tail(segs))

\* the names the pattern binds, each to its segment; the wildcard to the
\* rest of the path
BindParams_FirstSegment(pat, path) ==
  LET ParamNames == {pat[i].v : i \in {j \in 1..Len(pat) : pat[j].k # "lit"}}
      PosOf(n) == CHOOSE i \in 1..Len(pat) : pat[i].k # "lit" /\ pat[i].v = n
  IN [n \in ParamNames |-> path[PosOf(n)]]
BindParams(pat, path) ==
  LET ParamNames == {pat[i].v : i \in {j \in 1..Len(pat) : pat[j].k # "lit"}}
      PosOf(n) == CHOOSE i \in 1..Len(pat) : pat[i].k # "lit" /\ pat[i].v = n
  IN [n \in ParamNames |->
        IF pat[PosOf(n)].k = "wild"
        THEN JoinPath(SubSeq(path, PosOf(n), Len(path)))
        ELSE path[PosOf(n)]]

\* the route the framework serves when nothing matches
NotFoundRoute ==
  [scope |-> "root", methods |-> {}, path |-> <<>>, full |-> <<>>, handler |-> "notFound",
   preHandler |-> "none", schema |-> "none", response |-> "none"]

RouteAt(i) == IF i = 0 THEN NotFoundRoute ELSE routes[i]

CurrentRoute == RouteAt(request.route)

\* ------------------------------------------------------ request / reply
NoHeader == [defined |-> FALSE, value |-> <<>>]
HeaderOf(chars) == [defined |-> TRUE, value |-> chars]
Undefined == [defined |-> FALSE, value |-> EmptyObj]
Defined(v) == [defined |-> TRUE, value |-> v]

Obj(v) == [kind |-> "object", value |-> v]
NoPayload == [kind |-> "undefined", value |-> EmptyObj]
ErrorValue(msg, code, validation) ==
  [name |-> "Error", message |-> msg, statusCode |-> code, validation |-> validation]
Err(msg) == [kind |-> "error", value |-> ErrorValue(msg, 0, <<>>)]

NoRequest ==
  [method |-> "", path |-> <<>>, auth |-> NoHeader, rawBody |-> Undefined,
   body |-> Undefined, params |-> EmptyObj, query |-> EmptyObj, rawQuery |-> EmptyObj,
   route |-> 0,
   user |-> UserDefault, startTime |-> StartTimeDefault]

\* request-scoped attachments start from the values given to decorateRequest
NewRequest_SharedAttachments(inp) ==
  [method |-> inp.method, path |-> inp.path, auth |-> inp.auth, rawBody |-> inp.body,
   body |-> Undefined,
   params |-> IF Match(inp.method, inp.path) = 0 THEN EmptyObj
              ELSE BindParams(routes[Match(inp.method, inp.path)].full, inp.path),
   query |-> inp.query, rawQuery |-> inp.query, route |-> Match(inp.method, inp.path),
   user |-> request.user, startTime |-> request.startTime]
NewRequest(inp) ==
  [method |-> inp.method, path |-> inp.path, auth |-> inp.auth, rawBody |-> inp.body,
   body |-> Undefined,
   params |-> IF Match(inp.method, inp.path) = 0 THEN EmptyObj
              ELSE BindParams(routes[Match(inp.method, inp.path)].full, inp.path),
   query |-> inp.query, rawQuery |-> inp.query, route |-> Match(inp.method, inp.path),
   user |-> UserDefault, startTime |-> StartTimeDefault]

NewReply ==
  [status |-> 200, headers |-> {}, payload |-> NoPayload, sending |-> FALSE, sent |-> FALSE]

NoDelivery == [done |-> FALSE, status |-> 0, headers |-> {}, body |-> NoPayload]

\* reply.status(code)
Status(rep, code) == [rep EXCEPT !.status = code]

\* reply.header(name, value)
Header(rep, n, v) ==
  [rep EXCEPT !.headers = {h \in rep.headers : h[1] # n} \cup {<<n, v>>}]

\* reply.send(payload): a reply that was already sent ignores the call
Send(rep, payload) ==
  IF rep.sent \/ rep.sending THEN rep
  ELSE [rep EXCEPT !.payload = payload, !.sending = TRUE]

\* where a called send enters the pipeline
SendEntry(rep) ==
  IF rep.payload.kind = "error" THEN "onError"
  ELSE IF rep.payload.kind = "undefined" THEN "onSend"
  ELSE "preSerialization"

\* ----------------------------------------------------- decorators in use
Bearer == <<"B", "e", "a", "r", "e", "r", " ">>
ValidToken == <<"v", "a", "l", "i", "d", "-", "t", "o", "k", "e", "n">>

TestUser == [isNull |-> FALSE, id |-> 1, name |-> "test-user", role |-> "admin"]

\* an exception escaping a hook or handler is sent as the error reply
Throw(rep, msg) == Send(rep, Err(msg))

\* reply.success(data), looked up through the scope of the matched route
ReplySuccess(sc, rep, data) ==
  IF Resolve(sc, "reply.success") = NotFound THEN Throw(rep, "reply.success is not a function")
  ELSE Send(rep, Obj([success |-> TRUE, data |-> data]))

\* reply.error(message, statusCode = 400)
ReplyError(sc, rep, msg, code) ==
  IF Resolve(sc, "reply.error") = NotFound THEN Throw(rep, "reply.error is not a function")
  ELSE Send(Status(rep, code), Obj([success |-> FALSE, error |-> msg]))

\* fastify.authenticate(request, reply)
Authenticate_AnyBearer(sc, req, rep) ==
  LET StartsWith(str, pre) == Len(str) >= Len(pre) /\ SubSeq(str, 1, Len(pre)) = pre
  IN
  IF ~req.auth.defined
  THEN [req |-> req, rep |-> ReplyError(sc, rep, "authentication required", 401)]
  ELSE IF ~StartsWith(req.auth.value, Bearer)
  THEN [req |-> req, rep |-> ReplyError(sc, rep, "authentication required", 401)]
  ELSE [req |-> [req EXCEPT !.user = TestUser], rep |-> rep]
Authenticate(sc, req, rep) ==
  LET StartsWith(str, pre) == Len(str) >= Len(pre) /\ SubSeq(str, 1, Len(pre)) = pre
      Slice(str, n) == SubSeq(str, n + 1, Len(str))
  IN
  IF ~req.auth.defined
  THEN [req |-> req, rep |-> ReplyError(sc, rep, "authentication required", 401)]
  ELSE IF ~StartsWith(req.auth.value, Bearer)
  THEN [req |-> req, rep |-> ReplyError(sc, rep, "authentication required", 401)]
  ELSE IF Slice(req.auth.value, 7) = ValidToken
  THEN [req |-> [req EXCEPT !.user = TestUser], rep |-> rep]
  ELSE [req |-> req, rep |-> ReplyError(sc, rep, "invalid token", 401)]

\* ------------------------------------------------------------------- hooks
\* A hook maps the context to a new context; out tells the hook runner what
\* the hook did: "next" (done()), "send" (the hook called reply.send),
\* "wait" (done() will be called from a promise callback), "hang".
Ctx(req, rep, log) == [req |-> req, rep |-> rep, log |-> log, out |-> "next", done |-> "none"]

\* lifecycle-example.ts request hooks
LifecycleOnRequest(c) == c
LifecyclePreParsing(c) == c
LifecyclePreValidation(c) == c
LifecyclePreHandler_Sends(c) ==
  [c EXCEPT !.rep = Send(c.rep, Obj([message |-> "sent by the hook"])),
            !.out = "send", !.done = "sync"]
LifecyclePreHandler(c) == c
LifecyclePreSerialization(c) == c
LifecycleOnSend(c, t) == [c EXCEPT !.rep = Header(c.rep, "X-Response-Time", t)]
LifecycleOnResponse_SetsHeader(c) == [c EXCEPT !.rep = Header(c.rep, "X-Status", c.rep.status)]
LifecycleOnResponse(c) == c
LifecycleOnError(c) == c
\* users.ts
UsersOnRequest(c) == c
\* auth-example.ts
AuthOnRequest(c, t) == [c EXCEPT !.req.startTime = t]

\* lifecycle-test.ts: reply.send(...) and then done()
EarlyResponseHook_NoSend(c) == c
EarlyResponseHook(c) ==
  [c EXCEPT !.rep = Send(c.rep, Obj([message |-> "early response from preHandler"])),
            !.out = "send", !.done = "sync"]

\* auth-example.ts: void fastify.authenticate(request, reply).then(() => done())
ProtectedPreHandler(c) ==
  IF Resolve("auth", "authenticate") = NotFound
  THEN [c EXCEPT !.rep = Throw(c.rep, "fastify.authenticate is not a function"),
                 !.out = "send"]
  ELSE IF Resolve("auth", "reply.error") = NotFound
          /\ Authenticate("auth", c.req, c.rep).rep.sending
  THEN [c EXCEPT !.out = "hang"]
  ELSE [c EXCEPT !.req = Authenticate("auth", c.req, c.rep).req,
                 !.rep = Authenticate("auth", c.req, c.rep).rep,
                 !.out = IF Authenticate("auth", c.req, c.rep).rep.sending
                         THEN "send" ELSE "wait",
                 !.done = "async"]

\* routing-examples.ts route option
FullOptionsPreHandler(c) == c

ApplyHook(id, c0, t) ==
  LET c == [c0 EXCEPT !.log = Append(c0.log, id)]
  IN CASE id = "lifecycle.onRequest" -> LifecycleOnRequest(c)
       [] id = "lifecycle.preParsing" -> LifecyclePreParsing(c)
       [] id = "lifecycle.preValidation" -> LifecyclePreValidation(c)
       [] id = "lifecycle.preHandler" -> LifecyclePreHandler(c)
       [] id = "lifecycle.preSerialization" -> LifecyclePreSerialization(c)
       [] id = "lifecycle.onSend" -> LifecycleOnSend(c, t)
       [] id = "lifecycle.onResponse" -> LifecycleOnResponse(c)
       [] id = "lifecycle.onError" -> LifecycleOnError(c)
       [] id = "users.onRequest" -> UsersOnRequest(c)
       [] id = "auth.onRequest" -> AuthOnRequest(c, t)
       [] id = "earlyResponse.preHandler" -> EarlyResponseHook(c)
       [] id = "protected.preHandler" -> ProtectedPreHandler(c)
       [] id = "fullOptions.preHandler" -> FullOptionsPreHandler(c)

\* hooks of a stage that apply to a route: those of the scopes on the
\* route's chain, in registration order, then the route's own hook
HooksFor_AllScopes(rt, st) ==
  LET idx == {i \in 1..Len(hooks) : hooks[i].stage = st}
      nth(k) == CHOOSE i \in idx : Cardinality({j \in idx : j < i}) = k - 1
  IN [k \in 1..Cardinality(idx) |-> hooks[nth(k)].id]
       \o (IF st = "preHandler" /\ rt.preHandler # "none" THEN <<rt.preHandler>> ELSE <<>>)
HooksFor(rt, st) ==
  LET idx == {i \in 1..Len(hooks) :
                hooks[i].stage = st /\ IsDescendantOrSelf(parent, rt.scope, hooks[i].scope)}
      nth(k) == CHOOSE i \in idx : Cardinality({j \in idx : j < i}) = k - 1
  IN [k \in 1..Cardinality(idx) |-> hooks[nth(k)].id]
       \o (IF st = "preHandler" /\ rt.preHandler # "none" THEN <<rt.preHandler>> ELSE <<>>)

\* hooks and handlers that read the clock (Date.now(), new Date())
HookTimes(ids) ==
  IF \E i \in 1..Len(ids) : ids[i] \in {"lifecycle.onSend", "auth.onRequest"}
  THEN Times ELSE {1}
HandlerTimes(h) ==
  IF h \in {"root", "auth.protected", "validation.createUser", "ser.benchmark"}
  THEN Times ELSE {1}

\* the hook runner: one hook after the other; it stops as soon as a hook
\* did not signal continuation or the reply was sent
RECURSIVE RunHooks(_, _, _)
RunHooks(ids, c, t) ==
  IF ids = <<>> \/ c.out # "next" THEN c
  ELSE RunHooks(Tail(ids), ApplyHook(Head(ids), c, t), t)

\* --------------------------------------------------------------- validator
\* The validator as the framework configures it: it stops at the first
\* failing keyword, fills in declared defaults, coerces the string values of
\* params and querystring to the declared type, and removes (does not
\* reject) properties that a schema with additionalProperties: false does
\* not declare.
StrProp(n) ==
  [name |-> n, type |-> "string", minLength |-> 0, maxLength |-> -1, format |-> "",
   pattern |-> "", enum |-> {}, hasDefault |-> FALSE, def |-> ""]
IntProp(n) ==
  [name |-> n, type |-> "integer", hasMin |-> FALSE, minimum |-> 0, hasMax |-> FALSE,
   maximum |-> 0, hasDefault |-> FALSE, def |-> 0]

\* lifecycle-test.ts (validation-examples)
CreateUserBodySchema ==
  [required |-> <<"name", "email">>,
   props |-> <<[StrProp("name") EXCEPT !.minLength = 2, !.maxLength = 50],
               [StrProp("email") EXCEPT !.format = "email"],
               [IntProp("age") EXCEPT !.hasMin = TRUE, !.minimum = 0,
                                      !.hasMax = TRUE, !.maximum = 150],
               [StrProp("role") EXCEPT !.enum = {"admin", "user", "guest"},
                                       !.hasDefault = TRUE, !.def = "user"]>>,
   additional |-> FALSE]

QuerystringSchema ==
  [required |-> <<>>,
   props |-> <<[IntProp("page") EXCEPT !.hasMin = TRUE, !.minimum = 1,
                                       !.hasDefault = TRUE, !.def = 1],
               [IntProp("limit") EXCEPT !.hasMin = TRUE, !.minimum = 1, !.hasMax = TRUE,
                                        !.maximum = 100, !.hasDefault = TRUE, !.def = 10],
               [StrProp("sort") EXCEPT !.enum = {"asc", "desc"},
                                       !.hasDefault = TRUE, !.def = "desc"],
               [StrProp("search") EXCEPT !.minLength = 1]>>,
   additional |-> TRUE]

\* routing-examples.ts /full-options
FullOptionsQuerySchema ==
  [required |-> <<>>, props |-> <<StrProp("name")>>, additional |-> TRUE]

\* serialization-examples.ts
SerUsersQuerySchema ==
  [required |-> <<>>,
   props |-> <<[IntProp("page") EXCEPT !.hasDefault = TRUE, !.def = 1],
               [IntProp("limit") EXCEPT !.hasDefault = TRUE, !.def = 10]>>,
   additional |-> TRUE]
SerUserParamsSchema ==
  [required |-> <<>>, props |-> <<[StrProp("id") EXCEPT !.pattern = "^[0-9]+$"]>>,
   additional |-> TRUE]

\* decimal strings that occur in requests, with their numeric value
DigitStrings == <<"1", "2", "3", "4", "10", "999">>
IsDigits(str) == \E i \in 1..Len(DigitStrings) : DigitStrings[i] = str
NaN == -1
\* Number(str) / parseInt(str, 10) on a path or query string
ToNumber(str) ==
  IF IsDigits(str)
  THEN <<1, 2, 3, 4, 10, 999>>[CHOOSE i \in 1..Len(DigitStrings) : DigitStrings[i] = str]
  ELSE NaN

ValidationError(path, kw, msg, missing) ==
  [instancePath |-> path, keyword |-> kw, message |-> msg, missingProperty |-> missing]

PropNames(sch) == {sch.props[i].name : i \in 1..Len(sch.props)}

PropOf(sch, n) == sch.props[CHOOSE i \in 1..Len(sch.props) : sch.props[i].name = n]
\* useDefaults
WithDefaults_None(sch, v) == v
WithDefaults(sch, v) ==
  LET DefaultedNames ==
        {sch.props[i].name :
           i \in {j \in 1..Len(sch.props) :
                    sch.props[j].hasDefault /\ sch.props[j].name \notin DOMAIN v}}
  IN [k \in (DOMAIN v) \cup DefaultedNames |->
        IF k \in DOMAIN v THEN v[k] ELSE PropOf(sch, k).def]

\* the keyword of property p that value x fails, "" when it passes
FailingKeyword(p, x) ==
  LET FormatOk(fmt, str) == fmt = "email" => str \in {"al@example.com", "kim@example.com"}
      PatternOk(pat, str) == pat = "^[0-9]+$" => IsDigits(str)
  IN
  IF p.type = "string"
  THEN IF p.enum # {} /\ x \notin p.enum THEN "enum"
       ELSE IF p.maxLength >= 0 /\ Len(x) > p.maxLength THEN "maxLength"
       ELSE IF Len(x) < p.minLength THEN "minLength"
       ELSE IF ~PatternOk(p.pattern, x) THEN "pattern"
       ELSE IF ~FormatOk(p.format, x) THEN "format"
       ELSE ""
  ELSE IF p.hasMax /\ x > p.maximum THEN "maximum"
       ELSE IF p.hasMin /\ x < p.minimum THEN "minimum"
       ELSE ""

FailingProps(sch, v) ==
  {i \in 1..Len(sch.props) :
     sch.props[i].name \in DOMAIN v /\ FailingKeyword(sch.props[i], v[sch.props[i].name]) # ""}

MissingRequired(sch, v) == {i \in 1..Len(sch.required) : sch.required[i] \notin DOMAIN v}

Min(S) == CHOOSE x \in S : \A y \in S : x <= y

\* validate(schema, value): [ok, value, errors]; strings says whether the
\* part arrives as strings (params, querystring)
ValidateObject(sch, v, strings) ==
  LET \* removeAdditional
      stripped == IF sch.additional THEN v
                  ELSE [k \in (DOMAIN v) \cap PropNames(sch) |-> v[k]]
      \* coerceTypes on the parts that arrive as strings
      IsInt(k) == k \in PropNames(sch) /\ PropOf(sch, k).type = "integer"
      coercionFails == {n \in DOMAIN stripped : IsInt(n) /\ ~IsDigits(stripped[n])}
      typed == IF strings
               THEN [k \in DOMAIN stripped |->
                       IF IsInt(k) THEN ToNumber(stripped[k]) ELSE stripped[k]]
               ELSE stripped
      \* useDefaults
      filled == WithDefaults(sch, typed)
  IN IF MissingRequired(sch, v) # {}
     THEN [ok |-> FALSE, value |-> v,
           errors |-> <<ValidationError("", "required",
                          "must have required property "
                             \o sch.required[Min(MissingRequired(sch, v))],
                          sch.required[Min(MissingRequired(sch, v))])>>]
     ELSE IF strings /\ coercionFails # {}
     THEN [ok |-> FALSE, value |-> v,
           errors |-> <<ValidationError(
                          "/" \o (CHOOSE n \in coercionFails : TRUE),
                          "type", "must be integer", "")>>]
     ELSE IF FailingProps(sch, filled) # {}
     THEN [ok |-> FALSE, value |-> v,
           errors |-> <<ValidationError(
                          "/" \o sch.props[Min(FailingProps(sch, filled))].name,
                          FailingKeyword(sch.props[Min(FailingProps(sch, filled))],
                                         filled[sch.props[Min(FailingProps(sch, filled))].name]),
                          "constraint violated", "")>>]
     ELSE [ok |-> TRUE, value |-> filled, errors |-> <<>>]

\* the request part a route schema validates
SchemaPart(id) ==
  CASE id = "createUser" -> "body"
    [] id = "querystring" -> "querystring"
    [] id = "fullOptionsQuery" -> "querystring"
    [] id = "serUsersQuery" -> "querystring"
    [] id = "serUserParams" -> "params"
    [] OTHER -> "none"

SchemaOf(id) ==
  CASE id = "createUser" -> CreateUserBodySchema
    [] id = "querystring" -> QuerystringSchema
    [] id = "fullOptionsQuery" -> FullOptionsQuerySchema
    [] id = "serUsersQuery" -> SerUsersQuerySchema
    [] id = "serUserParams" -> SerUserParamsSchema

\* validation of the request against the route's schema
ValidateRequest(id, req) ==
  CASE SchemaPart(id) = "none" -> [ok |-> TRUE, value |-> EmptyObj, errors |-> <<>>]
    [] SchemaPart(id) = "body" ->
         IF req.body.defined THEN ValidateObject(SchemaOf(id), req.body.value, FALSE)
         ELSE [ok |-> FALSE, value |-> EmptyObj,
               errors |-> <<ValidationError("", "type", "must be object", "")>>]
    [] SchemaPart(id) = "querystring" -> ValidateObject(SchemaOf(id), req.query, TRUE)
    [] SchemaPart(id) = "params" -> ValidateObject(SchemaOf(id), req.params, TRUE)

\* -------------------------------------------------------------- serializer
ObjS(props) == [type |-> "object", properties |-> props]
ArrS(items) == [type |-> "array", items |-> items]
Atom(t) == [type |-> t]

\* serialize(schema, value): only declared properties are written, at
\* every nesting level
RECURSIVE Serialize(_, _)
Serialize(sch, v) ==
  IF sch.type = "object"
  THEN [k \in (DOMAIN sch.properties) \cap (DOMAIN v) |-> Serialize(sch.properties[k], v[k])]
  ELSE IF sch.type = "array"
  THEN [i \in 1..Len(v) |-> Serialize(sch.items, v[i])]
  ELSE v

\* serialization-examples.ts
UserResponseSchema_WithPassword ==
  ObjS([id |-> Atom("integer"), name |-> Atom("string"), email |-> Atom("string"),
        role |-> Atom("string"), createdAt |-> Atom("string"), password |-> Atom("string")])
UserResponseSchema ==
  ObjS([id |-> Atom("integer"), name |-> Atom("string"), email |-> Atom("string"),
        role |-> Atom("string"), createdAt |-> Atom("string")])
UsersListResponseSchema ==
  ObjS([success |-> Atom("boolean"),
        data |-> ArrS(UserResponseSchema),
        pagination |-> ObjS([page |-> Atom("integer"), limit |-> Atom("integer"),
                             total |-> Atom("integer"), totalPages |-> Atom("integer")])])
SingleUserResponseSchema ==
  ObjS([success |-> Atom("boolean"), data |-> UserResponseSchema])
ErrorResponseSchema ==
  ObjS([success |-> Atom("boolean"),
        error |-> ObjS([code |-> Atom("string"), message |-> Atom("string")])])
BenchmarkResponseSchema ==
  ObjS([message |-> Atom("string"), itemCount |-> Atom("integer"),
        data |-> ArrS(ObjS([id |-> Atom("integer"), value |-> Atom("string"),
                            timestamp |-> Atom("string")]))])
NestedResponseSchema ==
  ObjS([organization |->
          ObjS([id |-> Atom("integer"), name |-> Atom("string"),
                departments |->
                  ArrS(ObjS([id |-> Atom("integer"), name |-> Atom("string"),
                             members |-> ArrS(UserResponseSchema)]))])])
\* routing-examples.ts /full-options
FullOptionsResponseSchema == ObjS([hello |-> Atom("string")])

\* statuses for which a route declares a response schema
DeclaredStatuses(id) ==
  CASE id = "usersList" -> {200}
    [] id = "byStatus" -> {200, 404, 500}
    [] id = "benchmark" -> {200}
    [] id = "nested" -> {200}
    [] id = "fullOptions" -> {200}
    [] OTHER -> {}

ResponseSchema_IgnoresStatus(id, status) ==
  CASE id = "usersList" -> UsersListResponseSchema
    [] id = "byStatus" -> SingleUserResponseSchema
    [] id = "benchmark" -> BenchmarkResponseSchema
    [] id = "nested" -> NestedResponseSchema
    [] id = "fullOptions" -> FullOptionsResponseSchema
ResponseSchema(id, status) ==
  CASE id = "usersList" -> UsersListResponseSchema
    [] id = "byStatus" /\ status = 200 -> SingleUserResponseSchema
    [] id = "byStatus" /\ status # 200 -> ErrorResponseSchema
    [] id = "benchmark" -> BenchmarkResponseSchema
    [] id = "nested" -> NestedResponseSchema
    [] id = "fullOptions" -> FullOptionsResponseSchema

\* the serialize step of reply.send for an object payload
SerializePayload(rt, status, v) ==
  IF status \in DeclaredStatuses(rt.response) THEN Serialize(ResponseSchema(rt.response, status), v)
  ELSE v

\* ------------------------------------------------------------------ stores
InitialPosts ==
  <<[id |-> 1, title |-> "first post", content |-> "Hello World!"],
    [id |-> 2, title |-> "second post", content |-> "Fastify is awesome!"],
    [id |-> 3, title |-> "third post", content |-> "Learning routing..."]>>

InitialUsers ==
  <<[id |-> 1, name |-> "Kim", email |-> "kim@example.com"],
    [id |-> 2, name |-> "Lee", email |-> "lee@example.com"],
    [id |-> 3, name |-> "Park", email |-> "park@example.com"]>>

Secrets == {"hashed_password_123", "another_hash"}

SerUsers(sec) ==
  <<[id |-> 1, name |-> "Alice", email |-> "alice@example.com", role |-> "admin",
     createdAt |-> "2024-01-01T00:00:00Z", password |-> sec, internalNotes |-> "VIP customer"],
    [id |-> 2, name |-> "Bob", email |-> "bob@example.com", role |-> "user",
     createdAt |-> "2024-01-02T00:00:00Z", password |-> sec,
     internalNotes |-> "Regular customer"],
    [id |-> 3, name |-> "Charlie", email |-> "charlie@example.com", role |-> "guest",
     createdAt |-> "2024-01-03T00:00:00Z", password |-> sec, internalNotes |-> "New signup"]>>

NOT_FOUND_INDEX == -1

\* Array.prototype.findIndex on the id
FindIndex(seq, n) ==
  IF \E i \in 1..Len(seq) : seq[i].id = n
  THEN Min({i \in 1..Len(seq) : seq[i].id = n})
  ELSE NOT_FOUND_INDEX

Pick(v, names) == [k \in (DOMAIN v) \cap names |-> v[k]]

\* ---------------------------------------------------------------- handlers
\* A handler maps (request, reply) to the reply after its reply.send (a
\* returned value is sent by the framework, a thrown exception is sent as
\* the error) and to the stores it leaves behind.
Done(rep) == [rep |-> rep, posts |-> posts, users |-> users]

\* app.ts
RootHandler(req, rep, t) ==
  IF Resolve("root", "utility") = NotFound
  THEN Done(Throw(rep, "cannot read properties of undefined"))
  ELSE Done(Send(rep, Obj([message |-> "Hello Fastify!", shared |-> Resolve("root", "sharedValue"),
                           today |-> t])))
TestEncapsulationHandler(req, rep) ==
  Done(Send(rep, Obj([sharedValue |-> Resolve("root", "sharedValue"),
                      message |-> "encapsulatedValue is only visible inside /api"])))

\* encapsulation-example.ts
EncapsulatedHandler(req, rep) ==
  Done(Send(rep, Obj([message |-> "this route lives inside the encapsulated plugin"])))
ChildHandler(req, rep) == Done(Send(rep, Obj([message |-> "child plugin"])))

\* users.ts
UsersListHandler(req, rep) == Done(Send(rep, Obj([users |-> users])))
UsersGetHandler(req, rep) ==
  IF FindIndex(users, ToNumber(req.params.id)) = NOT_FOUND_INDEX
  THEN Done(Send(Status(rep, 404), Obj([error |-> "user not found"])))
  ELSE Done(Send(rep, Obj([user |-> users[FindIndex(users, ToNumber(req.params.id))]])))
UsersCreateHandler(req, rep) ==
  IF ~req.body.defined
  THEN Done(Throw(rep, "cannot destructure property name of request.body"))
  ELSE LET newUser == [id |-> Len(users) + 1] @@ Pick(req.body.value, {"name", "email"})
       IN [rep |-> Send(Status(rep, 201), Obj([user |-> newUser])),
           posts |-> posts, users |-> Append(users, newUser)]

\* auth-example.ts
AuthPublicHandler(req, rep) ==
  Done(ReplySuccess("auth", rep, [message |-> "no authentication needed",
                                  config |-> Resolve("auth", "config")]))
AuthProtectedHandler(req, rep, t) ==
  Done(ReplySuccess("auth", rep, [message |-> "authenticated users only", user |-> req.user,
                                  responseTime |-> t - req.startTime]))
AuthErrorExampleHandler(req, rep) == Done(ReplyError("auth", rep, "intentional error", 400))

\* lifecycle-test.ts
LifecycleNormalHandler_NoSend(req, rep) == Done(rep)
LifecycleNormalHandler(req, rep) == Done(Send(rep, Obj([message |-> "normal response"])))
LifecycleErrorHandler_SendsObject(req, rep) ==
  Done(Send(rep, Obj([message |-> "intentional error"])))
LifecycleErrorHandler(req, rep) == Done(Send(rep, Err("intentional error")))
LifecycleEarlyHandler(req, rep) == Done(Send(rep, Obj([message |-> "this message is not seen"])))

\* routing-examples.ts
PostsListHandler(req, rep) == Done(Send(rep, Obj([posts |-> posts])))
PostsCreateHandler(req, rep) ==
  IF ~req.body.defined
  THEN Done(Throw(rep, "cannot destructure property title of request.body"))
  ELSE LET newPost == [id |-> Len(posts) + 1] @@ Pick(req.body.value, {"title", "content"})
       IN [rep |-> Send(Status(rep, 201), Obj([post |-> newPost])),
           posts |-> Append(posts, newPost), users |-> users]
PostNotFound(rep) == Done(Send(Status(rep, 404), Obj([error |-> "post not found"])))
PostsPutHandler(req, rep) ==
  LET postIndex == FindIndex(posts, ToNumber(req.params.id))
      updated == [id |-> ToNumber(req.params.id)] @@ Pick(req.body.value, {"title", "content"})
  IN IF ~req.body.defined
     THEN Done(Throw(rep, "cannot destructure property title of request.body"))
     ELSE IF postIndex = NOT_FOUND_INDEX THEN PostNotFound(rep)
     ELSE [rep |-> Send(rep, Obj([post |-> updated])),
           posts |-> [posts EXCEPT ![postIndex] = updated], users |-> users]
PostsPatchHandler(req, rep) ==
  LET postIndex == FindIndex(posts, ToNumber(req.params.id))
      updated == IF req.body.defined THEN req.body.value @@ posts[postIndex]
                 ELSE posts[postIndex]
  IN IF postIndex = NOT_FOUND_INDEX THEN PostNotFound(rep)
     ELSE [rep |-> Send(rep, Obj([post |-> updated])),
           posts |-> [posts EXCEPT ![postIndex] = updated], users |-> users]
PostsDeleteHandler(req, rep) ==
  LET postIndex == FindIndex(posts, ToNumber(req.params.id))
  IN IF postIndex = NOT_FOUND_INDEX THEN PostNotFound(rep)
     ELSE [rep |-> Send(Status(rep, 204), NoPayload),
           posts |-> SubSeq(posts, 1, postIndex - 1)
                       \o SubSeq(posts, postIndex + 1, Len(posts)),
           users |-> users]
PostsGetHandler(req, rep) ==
  LET postIndex == FindIndex(posts, ToNumber(req.params.id))
  IN IF postIndex = NOT_FOUND_INDEX THEN PostNotFound(rep)
     ELSE Done(Send(rep, Obj([post |-> posts[postIndex]])))
ArchiveHandler(req, rep) ==
  Done(Send(rep, Obj([date |-> req.params.year \o "-" \o req.params.month \o "-"
                                 \o req.params.day,
                      message |-> "archive"])))
Reverse(seq) == [i \in 1..Len(seq) |-> seq[Len(seq) + 1 - i]]
DEFAULT_LIMIT == 10
PostsQueryHandler(req, rep) ==
  LET sort == IF "sort" \in DOMAIN req.query THEN req.query.sort ELSE "asc"
      limitNum == IF "limit" \in DOMAIN req.query THEN ToNumber(req.query.limit)
                  ELSE DEFAULT_LIMIT
      ordered == IF sort = "desc" THEN Reverse(posts) ELSE posts
      result == SubSeq(ordered, 1, IF limitNum < Len(ordered) THEN limitNum ELSE Len(ordered))
  IN Done(Send(rep, Obj([query |-> [sort |-> sort, limit |-> limitNum], posts |-> result])))
FilesHandler(req, rep) ==
  Done(Send(rep, Obj([message |-> "file path matched", path |-> req.params["*"]])))
FullOptionsHandler(req, rep) ==
  Done(Send(rep, Obj([hello |-> IF "name" \in DOMAIN req.query THEN req.query.name
                                ELSE "World"])))
PingHandler(req, rep) == Done(Send(rep, Obj([pong |-> TRUE])))

\* validation-examples.ts
CreateUserHandler(req, rep, t) ==
  LET b == req.body.value
  IN Done(Send(rep, Obj([success |-> TRUE, message |-> "user created",
                         user |-> [id |-> t, age |-> IF "age" \in DOMAIN b THEN b.age ELSE "null",
                                   role |-> IF "role" \in DOMAIN b THEN b.role ELSE "user",
                                   createdAt |-> t]
                                  @@ Pick(b, {"name", "email"})])))
ListUsersHandler(req, rep) ==
  LET q == req.query
  IN Done(Send(rep, Obj([success |-> TRUE,
                         pagination |-> [page |-> IF "page" \in DOMAIN q THEN q.page ELSE 1,
                                         limit |-> IF "limit" \in DOMAIN q THEN q.limit ELSE 10,
                                         sort |-> IF "sort" \in DOMAIN q THEN q.sort ELSE "desc",
                                         search |-> IF "search" \in DOMAIN q THEN q.search
                                                    ELSE "null"],
                         users |-> <<[id |-> 1, name |-> "User 1"],
                                     [id |-> 2, name |-> "User 2"]>>])))

\* serialization-examples.ts
SerUsersHandler(req, rep) ==
  LET page == IF "page" \in DOMAIN req.query THEN req.query.page ELSE 1
      limit == IF "limit" \in DOMAIN req.query THEN req.query.limit ELSE 10
      total == Len(SerUsers(secret))
  IN Done(Send(rep, Obj([success |-> TRUE, data |-> SerUsers(secret),
                         pagination |-> [page |-> page, limit |-> limit, total |-> total,
                                         totalPages |-> (total + limit - 1) \div limit]])))
SerUserHandler(req, rep) ==
  LET id == ToNumber(req.params.id)
      i == FindIndex(SerUsers(secret), id)
  IN IF i = NOT_FOUND_INDEX
     THEN Done(Send(Status(rep, 404),
                    Obj([success |-> FALSE,
                         error |-> [code |-> "USER_NOT_FOUND", message |-> "user not found"]])))
     ELSE Done(Send(rep, Obj([success |-> TRUE, data |-> SerUsers(secret)[i]])))
BenchmarkHandler(req, rep, t) ==
  LET data == [i \in 1..MaxBenchItems |->
                 [id |-> i, value |-> "item-" \o ToString(i), timestamp |-> t,
                  secretField |-> "should-not-appear",
                  internalId |-> "internal-" \o ToString(i - 1)]]
  IN Done(Send(rep, Obj([message |-> "serialized with the schema", itemCount |-> Len(data),
                         data |-> data])))
NoSchemaHandler(req, rep) ==
  Done(Send(rep, Obj([message |-> "no schema: every field is exposed",
                      user |-> SerUsers(secret)[1],
                      warning |-> "password and internalNotes are exposed"])))
NestedHandler(req, rep) ==
  Done(Send(rep, Obj([organization |->
    [id |-> 1, name |-> "Acme Corp", internalCode |-> "ACME-001",
     departments |->
       <<[id |-> 1, name |-> "Engineering", budget |-> 1000000,
          members |-> SubSeq(SerUsers(secret), 1, 2)],
         [id |-> 2, name |-> "Marketing", budget |-> 500000,
          members |-> <<SerUsers(secret)[3]>>]>>]])))

\* the framework's reply when no route matches
NotFoundHandler_MethodNotAllowed(req, rep) ==
  Done(Send(Status(rep, 405),
            Obj([message |-> "Method not allowed", error |-> "Method Not Allowed",
                 statusCode |-> 405])))
NotFoundHandler(req, rep) ==
  Done(Send(Status(rep, 404),
            Obj([message |-> "Route not found", error |-> "Not Found", statusCode |-> 404])))

RunHandler(h, req, rep, t) ==
  CASE h = "root" -> RootHandler(req, rep, t)
    [] h = "testEncapsulation" -> TestEncapsulationHandler(req, rep)
    [] h = "encapsulated" -> EncapsulatedHandler(req, rep)
    [] h = "child" -> ChildHandler(req, rep)
    [] h = "users.list" -> UsersListHandler(req, rep)
    [] h = "users.get" -> UsersGetHandler(req, rep)
    [] h = "users.create" -> UsersCreateHandler(req, rep)
    [] h = "auth.public" -> AuthPublicHandler(req, rep)
    [] h = "auth.protected" -> AuthProtectedHandler(req, rep, t)
    [] h = "auth.errorExample" -> AuthErrorExampleHandler(req, rep)
    [] h = "lifecycle.normal" -> LifecycleNormalHandler(req, rep)
    [] h = "lifecycle.error" -> LifecycleErrorHandler(req, rep)
    [] h = "lifecycle.early" -> LifecycleEarlyHandler(req, rep)
    [] h = "posts.list" -> PostsListHandler(req, rep)
    [] h = "posts.create" -> PostsCreateHandler(req, rep)
    [] h = "posts.put" -> PostsPutHandler(req, rep)
    [] h = "posts.patch" -> PostsPatchHandler(req, rep)
    [] h = "posts.delete" -> PostsDeleteHandler(req, rep)
    [] h = "posts.get" -> PostsGetHandler(req, rep)
    [] h = "archive" -> ArchiveHandler(req, rep)
    [] h = "posts.query" -> PostsQueryHandler(req, rep)
    [] h = "files" -> FilesHandler(req, rep)
    [] h = "fullOptions" -> FullOptionsHandler(req, rep)
    [] h = "ping" -> PingHandler(req, rep)
    [] h = "validation.createUser" -> CreateUserHandler(req, rep, t)
    [] h = "validation.listUsers" -> ListUsersHandler(req, rep)
    [] h = "ser.users" -> SerUsersHandler(req, rep)
    [] h = "ser.user" -> SerUserHandler(req, rep)
    [] h = "ser.benchmark" -> BenchmarkHandler(req, rep, t)
    [] h = "ser.noSchema" -> NoSchemaHandler(req, rep)
    [] h = "ser.nested" -> NestedHandler(req, rep)
    [] h = "notFound" -> NotFoundHandler(req, rep)

\* ---------------------------------------------------------- error handlers
\* validation-examples.ts setErrorHandler
ValidationErrorHandler(err, rep) ==
  IF err.validation # <<>>
  THEN Send(Status(rep, 400),
            Obj([success |-> FALSE, error |-> "Validation Error",
                 message |-> "request data is not valid",
                 details |-> [i \in 1..Len(err.validation) |->
                                [field |-> IF err.validation[i].instancePath # ""
                                           THEN err.validation[i].instancePath
                                           ELSE IF err.validation[i].missingProperty # ""
                                           THEN err.validation[i].missingProperty
                                           ELSE "unknown",
                                 message |-> err.validation[i].message,
                                 keyword |-> err.validation[i].keyword]]]))
  ELSE Send(Status(rep, IF err.statusCode # 0 THEN err.statusCode ELSE 500),
            Obj([success |-> FALSE, error |-> err.name, message |-> err.message]))

\* the framework's default error handler
DefaultErrorHandler(err, rep) ==
  LET code == IF rep.status # 200 THEN rep.status
              ELSE IF err.statusCode >= 400 THEN err.statusCode ELSE 500
  IN Send(Status(rep, code),
          Obj([statusCode |-> code,
               error |-> IF code = 400 THEN "Bad Request" ELSE "Internal Server Error",
               message |-> err.message]))

\* ------------------------------------------------------------------ inputs
\* the requests a client sends: every registered route, paths that match no
\* route, known and unknown ids, absent, valid and invalid bodies and queries
Input(m, path, auth, body, query) ==
  [method |-> m, path |-> path, auth |-> auth, body |-> body, query |-> query]

PostIds == {"1", "999", "abc"}

CreateUserBodies ==
  {Undefined,
   Defined(EmptyObj),
   Defined([name |-> "Al", email |-> "al@example.com"]),
   Defined([name |-> "Al", email |-> "al@example.com", age |-> 30, role |-> "admin"]),
   Defined([name |-> "Al"]),
   Defined([name |-> "A", email |-> "bad"]),
   Defined([name |-> "Al", email |-> "bad", age |-> -1]),
   Defined([name |-> "Al", email |-> "al@example.com", role |-> "root"]),
   Defined([name |-> "Al", email |-> "al@example.com", age |-> 200]),
   Defined([name |-> "Al", email |-> "al@example.com", extra |-> 1]),
   Defined([name |-> "Al", extra |-> 1])}

AuthHeaders ==
  {NoHeader,
   HeaderOf(<<"B", "a", "s", "i", "c", " ", "x">>),
   HeaderOf(Bearer \o ValidToken),
   HeaderOf(Bearer \o <<"b", "a", "d">>),
   HeaderOf(Bearer \o ValidToken \o <<"x">>)}

Inputs ==
  LET In(m, path) == Input(m, path, NoHeader, Undefined, EmptyObj)
      InQ(m, path, q) == Input(m, path, NoHeader, Undefined, q)
      InB(m, path, b) == Input(m, path, NoHeader, b, EmptyObj)
      PostBody == Defined([title |-> "new title", content |-> "new content"])
      PatchBodies == {Undefined, Defined([title |-> "new title"]), Defined([id |-> 2])}
  IN {In("GET", <<>>), In("GET", <<"api", "encapsulated">>), In("GET", <<"api", "child">>),
      In("GET", <<"encapsulated">>), In("GET", <<"test-encapsulation">>),
      In("GET", <<"users">>), In("GET", <<"users", "1">>), In("GET", <<"users", "999">>),
      In("GET", <<"auth", "public">>), In("GET", <<"auth", "error-example">>),
      In("GET", <<"lifecycle", "normal">>), In("GET", <<"lifecycle", "error">>),
      In("GET", <<"lifecycle", "early-response">>),
      In("GET", <<"routing", "posts">>), In("GET", <<"posts">>),
      In("GET", <<"routing", "archive", "2024", "01", "15">>),
      In("GET", <<"routing", "archive", "2024", "01">>),
      In("GET", <<"routing", "archive", "2024", "01", "15", "x">>),
      In("GET", <<"routing", "files", "a", "b", "c">>),
      In("GET", <<"routing", "ping">>), In("HEAD", <<"routing", "ping">>),
      In("POST", <<"routing", "ping">>), In("DELETE", <<"routing", "posts">>),
      In("GET", <<"serialization", "users", "1">>),
      In("GET", <<"serialization", "users", "999">>),
      In("GET", <<"serialization", "users", "abc">>),
      In("GET", <<"serialization", "benchmark">>), In("GET", <<"serialization", "no-schema">>),
      In("GET", <<"serialization", "nested">>)}
     \cup {InQ("GET", <<"routing", "posts-query">>, q) :
             q \in {EmptyObj, [sort |-> "desc", limit |-> "2"]}}
     \cup {InQ("GET", <<"routing", "full-options">>, q) : q \in {EmptyObj, [name |-> "Kim"]}}
     \cup {InQ("GET", <<"validation", "users">>, q) :
             q \in {EmptyObj, [page |-> "2", sort |-> "asc"], [page |-> "abc"],
                    [sort |-> "up"]}}
     \cup {InQ("GET", <<"serialization", "users">>, q) : q \in {EmptyObj, [limit |-> "2"]}}
     \cup {InB("POST", <<"routing", "posts">>, b) : b \in {Undefined, PostBody}}
     \cup {InB("PUT", <<"routing", "posts", id>>, b) :
             id \in PostIds, b \in {Undefined, PostBody}}
     \cup {InB("PATCH", <<"routing", "posts", id>>, b) : id \in PostIds, b \in PatchBodies}
     \cup {In("DELETE", <<"routing", "posts", id>>) : id \in PostIds}
     \cup {In("GET", <<"routing", "posts", id>>) : id \in PostIds}
     \cup {InB("POST", <<"users">>, b) :
             b \in {Undefined, Defined([name |-> "Choi", email |-> "choi@example.com"])}}
     \cup {InB("POST", <<"validation", "users">>, b) : b \in CreateUserBodies}
     \cup {Input("GET", <<"auth", "protected">>, h, Undefined, EmptyObj) : h \in AuthHeaders}

\* --------------------------------------------------------------- lifecycle
\* the Request and Response Context of one request with its pipeline position
Context(p, req, rep, tr, log, pd, del, sa) ==
  [pc |-> p, request |-> req, reply |-> rep, trace |-> tr, hooklog |-> log,
   pendingDone |-> pd, delivered |-> del, sentAt |-> sa]

IdleContext == Context("idle", NoRequest, NewReply, <<>>, <<>>, "none", NoDelivery, "")

InFlight(p) == p \notin {"idle", "finished"}

Init ==
  /\ bootpc = 0
  /\ scopes = {"root"}
  /\ parent = [s \in {"root"} |-> "none"]
  /\ prefix = [s \in {"root"} |-> <<>>]
  /\ caps = {}
  /\ hooks = <<>>
  /\ routes = <<>>
  /\ pc = "idle"
  /\ request = NoRequest
  /\ reply = NewReply
  /\ trace = <<>>
  /\ hooklog = <<>>
  /\ pendingDone = "none"
  /\ delivered = NoDelivery
  /\ sentAt = ""
  /\ nreq = 0
  /\ posts = InitialPosts
  /\ users = InitialUsers
  /\ secret \in Secrets
  /\ parked = IdleContext
  /\ closing = FALSE
  /\ closeQ = <<>>
  /\ closelog = <<>>

\* a request arrives and is routed; its contexts are created
ReceiveFrom(inputs, max) ==
  /\ ~closing
  /\ pc \in {"idle", "finished"}
  /\ pendingDone = "none"
  /\ nreq < max
  /\ \E inp \in inputs :
       /\ request' = NewRequest(inp)
       /\ reply' = NewReply
  /\ trace' = <<>>
  /\ hooklog' = <<>>
  /\ delivered' = NoDelivery
  /\ sentAt' = ""
  /\ nreq' = nreq + 1
  /\ pc' = "onRequest"
  /\ UNCHANGED <<bootVars, pendingDone, posts, users, secret, sysVars>>

Receive ==
  /\ Ready
  /\ ReceiveFrom(Inputs, MaxRequests)

\* where the pipeline goes after the hooks of a stage have run
AfterHooks(c, nextpc) ==
  CASE c.out = "next" -> nextpc
    [] c.out = "send" -> SendEntry(c.rep)
    [] c.out = "wait" -> "hookDone"
    [] c.out = "hang" -> "hung"

\* one hook stage: every hook of the stage that applies to the route
Stage(st, nextpc) ==
  /\ pc = st
  /\ \E t \in HookTimes(HooksFor(CurrentRoute, st)) :
       LET c == RunHooks(HooksFor(CurrentRoute, st), Ctx(request, reply, hooklog), t)
       IN /\ request' = c.req
          /\ reply' = c.rep
          /\ hooklog' = c.log
          /\ pendingDone' = IF c.done # "none" THEN c.done ELSE pendingDone
          /\ sentAt' = IF c.out = "send" /\ sentAt = "" THEN st ELSE sentAt
          /\ pc' = AfterHooks(c, nextpc)
  /\ trace' = Append(trace, st)
  /\ UNCHANGED <<bootVars, delivered, nreq, posts, users, secret, sysVars>>

OnRequest ==
  /\ pc = "onRequest"
  /\ Stage("onRequest", "preParsing")

\* the body is parsed once the preParsing hooks are through
PreParsing ==
  /\ pc = "preParsing"
  /\ \E t \in HookTimes(HooksFor(CurrentRoute, "preParsing")) :
       LET c == RunHooks(HooksFor(CurrentRoute, "preParsing"),
                         Ctx(request, reply, hooklog), t)
       IN /\ request' = IF c.out = "next" THEN [c.req EXCEPT !.body = c.req.rawBody]
                        ELSE c.req
          /\ reply' = c.rep
          /\ hooklog' = c.log
          /\ pendingDone' = IF c.done # "none" THEN c.done ELSE pendingDone
          /\ sentAt' = IF c.out = "send" /\ sentAt = "" THEN "preParsing" ELSE sentAt
          /\ pc' = AfterHooks(c, "preValidation")
  /\ trace' = Append(trace, "preParsing")
  /\ UNCHANGED <<bootVars, delivered, nreq, posts, users, secret, sysVars>>

PreValidation ==
  /\ pc = "preValidation"
  /\ Stage("preValidation", "validate")

\* schema validation: a failure is sent as a 400 error, a success replaces
\* the validated part by the validator's value
Validate ==
  /\ pc = "validate"
  /\ LET rt == CurrentRoute
         r == ValidateRequest(rt.schema, request)
     IN IF r.ok
        THEN /\ request' =
                  CASE SchemaPart(rt.schema) = "body" ->
                         [request EXCEPT !.body = Defined(r.value)]
                    [] SchemaPart(rt.schema) = "querystring" ->
                         [request EXCEPT !.query = r.value]
                    [] SchemaPart(rt.schema) = "params" ->
                         [request EXCEPT !.params = r.value]
                    [] OTHER -> request
             /\ reply' = reply
             /\ sentAt' = sentAt
             /\ pc' = "preHandler"
        ELSE /\ request' = request
             /\ reply' = Send(Status(reply, 400),
                              [kind |-> "error",
                               value |-> ErrorValue("validation failed", 400, r.errors)])
             /\ sentAt' = "validate"
             /\ pc' = "onError"
  /\ trace' = Append(trace, "validate")
  /\ UNCHANGED <<bootVars, hooklog, pendingDone, delivered, nreq, posts, users, secret, sysVars>>

PreHandler ==
  /\ pc = "preHandler"
  /\ Stage("preHandler", "handler")

\* done() of a hook that sent the reply or that finished asynchronously:
\* the hook runner goes on only when the reply has not been sent
HookDone ==
  /\ pendingDone # "none"
  /\ \/ pc = "hookDone"
     \/ pendingDone = "async" /\ reply.sent /\ pc \in {"onResponse", "finished"}
  /\ pendingDone' = "none"
  /\ pc' = IF reply.sent THEN (IF pc = "hookDone" THEN "onResponse" ELSE pc) ELSE "handler"
  /\ UNCHANGED <<bootVars, request, reply, trace, hooklog, delivered, sentAt, nreq, posts,
                 users, secret, sysVars>>

Handler ==
  /\ pc = "handler"
  /\ \E t \in HandlerTimes(CurrentRoute.handler) :
       LET r == RunHandler(CurrentRoute.handler, request, reply, t)
       IN /\ reply' = r.rep
          /\ posts' = r.posts
          /\ users' = r.users
          /\ sentAt' = IF r.rep.sending /\ sentAt = "" THEN "handler" ELSE sentAt
          /\ pc' = IF r.rep.sent THEN "finished"
                   ELSE IF r.rep.sending THEN SendEntry(r.rep) ELSE "hung"
  /\ trace' = Append(trace, "handler")
  /\ UNCHANGED <<bootVars, request, hooklog, pendingDone, delivered, nreq, secret, sysVars>>

PreSerialization ==
  /\ pc = "preSerialization"
  /\ Stage("preSerialization", "serialize")

Serialize_ ==
  /\ pc = "serialize"
  /\ reply' = [reply EXCEPT !.payload.value =
                 SerializePayload(CurrentRoute, reply.status, reply.payload.value)]
  /\ pc' = "onSend"
  /\ trace' = Append(trace, "serialize")
  /\ UNCHANGED <<bootVars, request, hooklog, pendingDone, delivered, sentAt, nreq, posts,
                 users, secret, sysVars>>

OnSend ==
  /\ pc = "onSend"
  /\ Stage("onSend", "write")

\* the payload is written: the reply is sent
Write ==
  /\ pc = "write"
  /\ reply' = [reply EXCEPT !.sent = TRUE, !.sending = FALSE]
  /\ delivered' = [done |-> TRUE, status |-> reply.status, headers |-> reply.headers,
                   body |-> reply.payload]
  /\ pc' = IF pendingDone = "sync" THEN "hookDone" ELSE "onResponse"
  /\ UNCHANGED <<bootVars, request, trace, hooklog, pendingDone, sentAt, nreq, posts, users,
                 secret, sysVars>>

OnResponse ==
  /\ pc = "onResponse"
  /\ Stage("onResponse", "finished")

OnError ==
  /\ pc = "onError"
  /\ Stage("onError", "errorHandler")

\* the error handler of the nearest scope that set one, else the default
ErrorHandler ==
  /\ pc = "errorHandler"
  /\ LET err == reply.payload.value
         rep0 == [reply EXCEPT !.sending = FALSE]
     IN IF Resolve(CurrentRoute.scope, "errorHandler") = "validation.errorHandler"
        THEN /\ reply' = ValidationErrorHandler(err, rep0)
             /\ pc' = "preSerialization"
        ELSE /\ reply' = DefaultErrorHandler(err, rep0)
             /\ pc' = "onSend"
  /\ UNCHANGED <<bootVars, request, trace, hooklog, pendingDone, delivered, sentAt, nreq,
                 posts, users, secret, sysVars>>

\* where a pipeline waits for the event loop: the body being read after the
\* preParsing hooks, the promise of authenticate, the end of the write
SuspensionPoints == {"preValidation", "hookDone", "onResponse"}

\* Requests are served on one thread: a pipeline that waits leaves the thread
\* to the other request in flight, each with its own contexts.
Switch ==
  /\ Ready
  /\ ~InFlight(pc) \/ pc \in SuspensionPoints
  /\ InFlight(pc) \/ InFlight(parked.pc)
  /\ parked' = Context(pc, request, reply, trace, hooklog, pendingDone, delivered, sentAt)
  /\ pc' = parked.pc
  /\ request' = parked.request
  /\ reply' = parked.reply
  /\ trace' = parked.trace
  /\ hooklog' = parked.hooklog
  /\ pendingDone' = parked.pendingDone
  /\ delivered' = parked.delivered
  /\ sentAt' = parked.sentAt
  /\ UNCHANGED <<bootVars, nreq, posts, users, secret, closing, closeQ, closelog>>

\* the onClose functions in the order in which close() runs them: the last
\* registered first
CloseQueue_Fifo(hks) ==
  LET idx == {i \in 1..Len(hks) : hks[i].stage = "onClose"}
      nth(k) == CHOOSE i \in idx : Cardinality({j \in idx : j < i}) = k - 1
  IN [k \in 1..Cardinality(idx) |-> hks[nth(k)].id]
CloseQueue(hks) ==
  LET idx == {i \in 1..Len(hks) : hks[i].stage = "onClose"}
      nth(k) == CHOOSE i \in idx : Cardinality({j \in idx : j > i}) = k - 1
  IN [k \in 1..Cardinality(idx) |-> hks[nth(k)].id]

\* database.ts: the onClose hook awaits client.close()
DatabaseOnClose(log) == log \o <<"database.onClose", "client.close">>
\* lifecycle-example.ts: the onClose hook logs and calls done()
LifecycleOnClose(log) == Append(log, "lifecycle.onClose")

\* app.close(): no new request is accepted, the requests in flight complete
Close ==
  /\ Ready
  /\ ~closing
  /\ ~InFlight(pc) /\ ~InFlight(parked.pc)
  /\ pendingDone = "none" /\ parked.pendingDone = "none"
  /\ closing' = TRUE
  /\ closeQ' = CloseQueue(hooks)
  /\ UNCHANGED <<bootVars, reqVars, posts, users, secret, parked, closelog>>

\* the next onClose function runs to completion
OnClose ==
  /\ closing
  /\ closeQ # <<>>
  /\ closelog' = IF Head(closeQ) = "database.onClose" THEN DatabaseOnClose(closelog)
                 ELSE LifecycleOnClose(closelog)
  /\ closeQ' = Tail(closeQ)
  /\ UNCHANGED <<bootVars, reqVars, posts, users, secret, parked, closing>>

Next ==
  \/ RegisterSharedPlugin \/ RegisterDatabasePlugin \/ RegisterDecoratorsPlugin
  \/ RegisterLifecyclePlugin \/ RegisterRootRoute \/ RegisterApiScope
  \/ RegisterEncapsulatedPlugin \/ RegisterChildPlugin \/ RegisterTestEncapsulation
  \/ RegisterUserRoutes \/ RegisterAuthRoutes \/ RegisterLifecycleTestRoutes
  \/ RegisterRoutingExamples \/ RegisterValidationExamples \/ RegisterSerializationExamples
  \/ Receive \/ OnRequest \/ PreParsing \/ PreValidation \/ Validate \/ PreHandler
  \/ HookDone \/ Handler \/ PreSerialization \/ Serialize_ \/ OnSend \/ Write
  \/ OnResponse \/ OnError \/ ErrorHandler \/ Close \/ OnClose

Spec == Init /\ [][Next]_vars

\* the requests that write or read the request-scoped attachments, and one
\* with a body to read
AttachmentInputs ==
  {inp \in Inputs :
     \/ /\ inp.path \in {<<"auth", "protected">>, <<"lifecycle", "normal">>}
        /\ inp.auth \in {NoHeader, HeaderOf(Bearer \o ValidToken),
                         HeaderOf(Bearer \o <<"b", "a", "d">>)}
     \/ inp.path = <<"users">> /\ inp.method = "POST"}

ReceiveInterleaved ==
  /\ Ready
  /\ ReceiveFrom(AttachmentInputs, MaxRequests)

\* every hook and handler that is ready to run is eventually run
PipelineStep ==
  \/ OnRequest \/ PreParsing \/ PreValidation \/ Validate \/ PreHandler
  \/ HookDone \/ Handler \/ PreSerialization \/ Serialize_ \/ OnSend \/ Write
  \/ OnResponse \/ OnError \/ ErrorHandler

\* the requests whose termination is followed
ReceiveFair ==
  /\ Ready
  /\ ReceiveFrom(Inputs, MaxFairRequests)

NextFair ==
  \/ RegisterSharedPlugin \/ RegisterDatabasePlugin \/ RegisterDecoratorsPlugin
  \/ RegisterLifecyclePlugin \/ RegisterRootRoute \/ RegisterApiScope
  \/ RegisterEncapsulatedPlugin \/ RegisterChildPlugin \/ RegisterTestEncapsulation
  \/ RegisterUserRoutes \/ RegisterAuthRoutes \/ RegisterLifecycleTestRoutes
  \/ RegisterRoutingExamples \/ RegisterValidationExamples \/ RegisterSerializationExamples
  \/ ReceiveFair
  \/ OnRequest \/ PreParsing \/ PreValidation \/ Validate \/ PreHandler
  \/ HookDone \/ Handler \/ PreSerialization \/ Serialize_ \/ OnSend \/ Write
  \/ OnResponse \/ OnError \/ ErrorHandler \/ Close \/ OnClose

FairSpec == Init /\ [][NextFair]_vars /\ WF_vars(PipelineStep)

\* two requests in flight, interleaved where their pipelines wait
NextInterleaved ==
  \/ RegisterSharedPlugin \/ RegisterDatabasePlugin \/ RegisterDecoratorsPlugin
  \/ RegisterLifecyclePlugin \/ RegisterRootRoute \/ RegisterApiScope
  \/ RegisterEncapsulatedPlugin \/ RegisterChildPlugin \/ RegisterTestEncapsulation
  \/ RegisterUserRoutes \/ RegisterAuthRoutes \/ RegisterLifecycleTestRoutes
  \/ RegisterRoutingExamples \/ RegisterValidationExamples \/ RegisterSerializationExamples
  \/ ReceiveInterleaved \/ Switch
  \/ OnRequest \/ PreParsing \/ PreValidation \/ Validate \/ PreHandler
  \/ HookDone \/ Handler \/ PreSerialization \/ Serialize_ \/ OnSend \/ Write
  \/ OnResponse \/ OnError \/ ErrorHandler \/ Close \/ OnClose

SpecInterleaved == Init /\ [][NextInterleaved]_vars

\* ================================================================ claims
IsPrefix(a, b) == Len(a) <= Len(b) /\ SubSeq(b, 1, Len(a)) = a
Count(seq, x) == Cardinality({i \in 1..Len(seq) : seq[i] = x})
\* x occurs in seq and every occurrence of y comes after it
Before(seq, x, y) ==
  \A j \in 1..Len(seq) : seq[j] = y => \E i \in 1..(j - 1) : seq[i] = x
Matched == pc # "idle" /\ request.route # 0
Serving(h) == Matched /\ CurrentRoute.handler = h

\* the order in which the spec lists the stages
ListedOrder ==
  <<"onRequest", "preParsing", "preValidation", "preHandler", "validate", "handler",
    "preSerialization", "serialize", "onSend", "onResponse">>
\* the order with validation ahead of the preHandler hooks
StageOrder ==
  <<"onRequest", "preParsing", "preValidation", "validate", "preHandler", "handler",
    "preSerialization", "serialize", "onSend", "onResponse">>

\* no hook sent the reply early and nothing raised, as far as the request got
NoEarlySendNoRaise ==
  /\ Matched
  /\ sentAt \in {"", "handler"}
  /\ reply.payload.kind # "error"
  /\ "onError" \notin Range(trace)

\* C1 as stated: a matched request without early send and without raise runs
\* the stages once each in the listed order, validate after preHandler.
C1_ListedOrder ==
  (NoEarlySendNoRaise /\ pc = "finished") => trace = ListedOrder

\* C1: a matched request in which no hook sends early, nothing raises and the
\* handler sends a payload runs the stages once each in the order onRequest,
\* preParsing, preValidation, validate, preHandler, handler, preSerialization,
\* serialize, onSend, onResponse, and no stage runs before the earlier ones;
\* a handler that sends no payload skips preSerialization and serialize only;
\* GET /lifecycle/normal is such a request.
C1_StageOrder ==
  /\ (NoEarlySendNoRaise /\ ~(sentAt = "handler" /\ reply.payload.kind = "undefined"))
       => /\ IsPrefix(trace, StageOrder)
          /\ pc = "finished" => trace = StageOrder
  /\ (NoEarlySendNoRaise /\ sentAt = "handler" /\ reply.payload.kind = "undefined"
        /\ pc = "finished")
       => trace = SubSeq(StageOrder, 1, 6) \o SubSeq(StageOrder, 9, 10)
  /\ (Serving("lifecycle.normal") /\ pc = "finished") => trace = StageOrder

C1_Witness ==
  /\ Serving("lifecycle.normal")
  /\ pc = "finished"
  /\ NoEarlySendNoRaise
  /\ trace = StageOrder
  /\ delivered.status = 200

\* C2: on /lifecycle/early-response the preHandler hook sends the reply, the
\* route handler never runs, the pipeline goes on to onSend and onResponse,
\* and the client receives the payload the hook sent.
C2_EarlyResponse ==
  Serving("lifecycle.early") =>
    /\ "handler" \notin Range(trace)
    /\ pc # "handler"
    /\ delivered.done =>
         /\ delivered.status = 200
         /\ delivered.body = Obj([message |-> "early response from preHandler"])
         /\ sentAt = "preHandler"
    /\ pc = "finished" =>
         /\ delivered.done
         /\ Count(trace, "onSend") = 1 /\ Count(trace, "onResponse") = 1
         /\ Before(trace, "preHandler", "onSend")
         /\ Before(trace, "onSend", "onResponse")

C2_Witness ==
  /\ Serving("lifecycle.early")
  /\ pc = "finished"
  /\ "handler" \notin Range(trace)
  /\ delivered.body = Obj([message |-> "early response from preHandler"])

C4_FinalizedOnce ==
  [][(reply.sent /\ nreq' = nreq) => (reply' = reply /\ delivered' = delivered)]_vars

C4_Witness ==
  /\ Serving("auth.protected")
  /\ pc = "finished"
  /\ pendingDone = "none"
  /\ reply.sent
  /\ sentAt = "preHandler"
  /\ delivered.status = 401
  /\ reply.status = delivered.status /\ reply.payload = delivered.body

SharedCapabilities == {"sharedValue", "utility", "db", "config", "authenticate"}
\* the bootstrap step after which a shared capability is registered
RegisteredAfter(n) ==
  IF n \in {"sharedValue", "utility"} THEN 1 ELSE IF n = "db" THEN 2 ELSE 3

\* C6: every capability a shared plugin registers at bootstrap is on the root
\* scope and resolves to that one value from every scope of the tree, and
\* GET /auth/public, whose handler reads config in a mounted scope, gives 200.
C6_SharedResolvesEverywhere ==
  /\ \A n \in SharedCapabilities :
       bootpc >= RegisteredAfter(n) =>
         /\ Local(caps, "root", n) # {}
         /\ Resolve("root", n) # NotFound
         /\ \A s \in scopes : Resolve(s, n) = Resolve("root", n)
  /\ (Serving("auth.public") /\ delivered.done) => delivered.status = 200

C6_Witness ==
  /\ Ready
  /\ {"api", "users", "auth", "lifecycle", "routing"} \subseteq scopes
  /\ Resolve("auth", "config") = "config-object"
  /\ Serving("auth.public")
  /\ delivered.done
  /\ delivered.status = 200

HandlerAt(method, path) == RouteAt(Match(method, path)).handler
LitPath(segs) == [j \in 1..Len(segs) |-> Lit(segs[j])]

\* C7: a route of a mounted sub-scope is matched only under the
\* concatenation of every ancestor's mount prefix with its own pattern:
\* GET /api/encapsulated, GET /users/:id and GET /routing/posts match their
\* routes, GET /encapsulated and GET /posts match none and are answered 404.
C7_PrefixedPaths ==
  /\ \A i \in 1..Len(routes) :
       routes[i].full = LitPath(FullPrefix(parent, prefix, routes[i].scope)) \o routes[i].path
  /\ Matched =>
       /\ PathMatches(LitPath(FullPrefix(parent, prefix, CurrentRoute.scope))
                        \o CurrentRoute.path, request.path)
       /\ IsPrefix(FullPrefix(parent, prefix, CurrentRoute.scope), request.path)
  /\ Ready =>
       /\ HandlerAt("GET", <<"api", "encapsulated">>) = "encapsulated"
       /\ HandlerAt("GET", <<"users", "1">>) = "users.get"
       /\ HandlerAt("GET", <<"routing", "posts">>) = "posts.list"
       /\ Match("GET", <<"encapsulated">>) = 0
       /\ Match("GET", <<"posts">>) = 0
  /\ (pc = "finished" /\ request.path \in {<<"encapsulated">>, <<"posts">>})
       => (request.route = 0 /\ delivered.status = 404)
  /\ (pc = "finished" /\ request.path = <<"api", "encapsulated">>) => delivered.status = 200

C7_Witness ==
  /\ pc = "finished"
  /\ nreq = 2
  /\ request.path = <<"encapsulated">>
  /\ request.route = 0
  /\ delivered.status = 404
  /\ FullPrefix(parent, prefix, "encapsulated") = <<"api">>

\* the body does not satisfy the schema as written: not an object, a required
\* property missing, a property the schema does not declare while it says
\* additionalProperties: false, or a declared property failing a keyword
ViolatesSchema(sch, b) ==
  \/ ~b.defined
  \/ MissingRequired(sch, b.value) # {}
  \/ (~sch.additional /\ ~((DOMAIN b.value) \subseteq PropNames(sch)))
  \/ FailingProps(sch, b.value) # {}

\* C8: on POST /validation/users a request whose body violates the body
\* schema never reaches the handler and is answered by a structured 400 with
\* field-level details; a body without email gets a detail naming email.
C8_ViolatingBodyRejected ==
  (Serving("validation.createUser") /\ ViolatesSchema(CreateUserBodySchema, request.rawBody))
    => /\ "handler" \notin Range(trace)
       /\ pc # "handler"
       /\ delivered.done =>
            /\ delivered.status = 400
            /\ delivered.body.value.success = FALSE
            /\ Len(delivered.body.value.details) >= 1
            /\ (request.rawBody.defined /\ "name" \in DOMAIN request.rawBody.value
                  /\ "email" \notin DOMAIN request.rawBody.value)
                 => \E i \in 1..Len(delivered.body.value.details) :
                      delivered.body.value.details[i].field = "email"

SensitiveFields ==
  {"password", "internalNotes", "internalCode", "budget", "secretField", "internalId"}

\* the fields of a value are those the schema declares, at every level
RECURSIVE ExactlyDeclared(_, _)
ExactlyDeclared(sch, v) ==
  IF sch.type = "object"
  THEN /\ DOMAIN v = DOMAIN sch.properties
       /\ (DOMAIN v) \cap SensitiveFields = {}
       /\ \A k \in DOMAIN v : ExactlyDeclared(sch.properties[k], v[k])
  ELSE IF sch.type = "array"
  THEN \A i \in 1..Len(v) : ExactlyDeclared(sch.items, v[i])
  ELSE TRUE

\* the schema the route declares for the users list, user, benchmark and
\* nested routes, as the source writes it
DeclaredFor(h, status) ==
  CASE h = "ser.users" -> UsersListResponseSchema
    [] h = "ser.user" /\ status = 200 -> SingleUserResponseSchema
    [] h = "ser.user" /\ status # 200 -> ErrorResponseSchema
    [] h = "ser.benchmark" -> BenchmarkResponseSchema
    [] h = "ser.nested" -> NestedResponseSchema

\* C9: a response whose route declares a schema for the status sent carries
\* exactly the declared fields at every nesting level; password,
\* internalNotes, internalCode, budget, secretField and internalId never
\* appear in what GET /serialization/users, /users/:id, /nested and
\* /benchmark deliver, whatever the stored password is.
C9_OnlyDeclaredFields ==
  /\ (delivered.done /\ Matched /\ delivered.status \in DeclaredStatuses(CurrentRoute.response))
       => ExactlyDeclared(ResponseSchema(CurrentRoute.response, delivered.status),
                          delivered.body.value)
  /\ (delivered.done /\ Matched
        /\ CurrentRoute.handler \in {"ser.users", "ser.user", "ser.benchmark", "ser.nested"}
        /\ delivered.status \in {200, 404})
       => ExactlyDeclared(DeclaredFor(CurrentRoute.handler, delivered.status),
                          delivered.body.value)

C9_Witness ==
  /\ Serving("ser.nested")
  /\ pc = "finished"
  /\ delivered.status = 200
  /\ secret = "another_hash"
  /\ DOMAIN delivered.body.value.organization = {"id", "name", "departments"}
  /\ DOMAIN delivered.body.value.organization.departments[1].members[1]
       = {"id", "name", "email", "role", "createdAt"}

RequestedPostId == ToNumber(request.params.id)

\* C10: GET, PUT, PATCH and DELETE on /posts/:id with an id that no stored
\* post has are answered 404 with an error body and leave the store as it is.
C10_UnknownPostIs404 ==
  [][(pc = "handler" /\ Matched
        /\ CurrentRoute.handler \in {"posts.get", "posts.put", "posts.patch", "posts.delete"}
        /\ FindIndex(posts, RequestedPostId) = NOT_FOUND_INDEX)
       => /\ reply'.status = 404
          /\ reply'.payload.kind = "object"
          /\ "error" \in DOMAIN reply'.payload.value
          /\ posts' = posts]_vars

\* the contexts of the request that holds the thread
Current == Context(pc, request, reply, trace, hooklog, pendingDone, delivered, sentAt)

\* the attachments of a request hold the defaults until a hook of that very
\* request writes them, and what they hold comes from that request
OwnAttachments(c) ==
  /\ c.pc = "onRequest" =>
       (c.request.user = UserDefault /\ c.request.startTime = StartTimeDefault)
  /\ "protected.preHandler" \notin Range(c.hooklog) => c.request.user = UserDefault
  /\ "auth.onRequest" \notin Range(c.hooklog) => c.request.startTime = StartTimeDefault
  /\ c.request.user # UserDefault =>
       (c.request.user = TestUser /\ c.request.auth = HeaderOf(Bearer \o ValidToken))
  /\ c.request.startTime # StartTimeDefault => c.request.startTime \in Times

\* C11: with two requests in flight, interleaved in any way at the points
\* where their pipelines wait, request.user is null and request.startTime is 0
\* before any hook of the request has run, they change only by a hook of that
\* request (authenticate, the /auth onRequest hook), and a step of one request
\* never changes the contexts of the other.
C11_RequestScoped ==
  /\ [](OwnAttachments(Current) /\ OwnAttachments(parked))
  /\ [][parked' # parked => (parked' = Current /\ Current' = parked)]_vars

C11_Witness ==
  /\ parked.pc = "hookDone"
  /\ parked.request.user = TestUser
  /\ parked.request.startTime # StartTimeDefault
  /\ Serving("lifecycle.normal")
  /\ pc = "finished"
  /\ request.user = UserDefault
  /\ request.startTime = StartTimeDefault

\* segment by segment: a literal equals its segment, a parameter is bound to
\* its one segment, a trailing wildcard to the rest of the path joined by "/"
BoundPerSegment(pat, path, params) ==
  /\ \A i \in 1..Len(pat) :
       /\ i <= Len(path)
       /\ pat[i].k = "lit" => path[i] = pat[i].v
       /\ pat[i].k = "param" => params[pat[i].v] = path[i]
       /\ pat[i].k = "wild" =>
            (i = Len(pat) /\ params["*"] = JoinPath(SubSeq(path, i, Len(path))))
  /\ (\A i \in 1..Len(pat) : pat[i].k # "wild") => Len(path) = Len(pat)

ArchivePath == <<"routing", "archive", "2024", "01", "15">>

\* C12: the matched route's pattern fits the request path segment by
\* segment; GET /routing/archive/:year/:month/:day binds exactly three
\* segments and matches neither two nor four; GET /routing/files/a/b/c binds
\* the wildcard to 'a/b/c'.
C12_SegmentBinding ==
  /\ Matched => BoundPerSegment(CurrentRoute.full, request.path, request.params)
  /\ Ready =>
       /\ HandlerAt("GET", ArchivePath) = "archive"
       /\ BindParams(RouteAt(Match("GET", ArchivePath)).full, ArchivePath)
            = [year |-> "2024", month |-> "01", day |-> "15"]
       /\ Match("GET", SubSeq(ArchivePath, 1, 4)) = 0
       /\ Match("GET", ArchivePath \o <<"x">>) = 0
       /\ HandlerAt("GET", <<"routing", "files", "a", "b", "c">>) = "files"
       /\ HandlerAt("GET", <<"routing", "posts", "posts">>) = "posts.get"
       /\ Match("GET", <<"routing", "Posts">>) = 0
  /\ (Serving("archive") /\ delivered.done) => delivered.body.value.date = "2024-01-15"
  /\ (Serving("files") /\ delivered.done) => delivered.body.value.path = "a/b/c"
  /\ (pc = "finished" /\ IsPrefix(<<"routing", "archive">>, request.path)
        /\ Len(request.path) # 5) => (request.route = 0 /\ delivered.status = 404)

C12_Witness ==
  /\ Serving("files")
  /\ pc = "finished"
  /\ request.params["*"] = "a/b/c"
  /\ delivered.status = 200
  /\ delivered.body.value.path = "a/b/c"

\* some registered pattern fits the path, under whatever method
PathRegistered(path) == \E i \in 1..Len(routes) : PathMatches(routes[i].full, path)

\* C13 as stated: a path that fits a registered pattern under another method
\* only is refused as method-not-allowed, distinct from route-not-found.
C13_MethodNotAllowed ==
  (pc = "finished" /\ request.route = 0) =>
    delivered.status = IF PathRegistered(request.path) THEN 405 ELSE 404

\* C13: a request for which no route is registered under its method is served
\* by the not-found route and answered 404 Not Found, whether no pattern fits
\* the path at all or a pattern fits under another method only (POST
\* /routing/ping, DELETE /routing/posts); no handler of a registered route
\* runs for it and no reply has status 405.
C13_NotFoundForBoth ==
  /\ Matched <=> (pc # "idle" /\ \E i \in 1..Len(routes) :
                     /\ request.method \in routes[i].methods
                     /\ PathMatches(routes[i].full, request.path))
  /\ (pc # "idle" /\ request.route = 0) => CurrentRoute.handler = "notFound"
  /\ (delivered.done /\ pc # "idle" /\ request.route = 0) =>
       /\ delivered.status = 404
       /\ delivered.body.value.error = "Not Found"
  /\ delivered.status # 405
  /\ Ready =>
       /\ Match("POST", <<"routing", "ping">>) = 0
       /\ Match("DELETE", <<"routing", "posts">>) = 0
       /\ HandlerAt("HEAD", <<"routing", "ping">>) = "ping"

C13_Witness ==
  /\ pc = "finished"
  /\ request.method = "POST"
  /\ request.path = <<"routing", "ping">>
  /\ PathRegistered(request.path)
  /\ request.route = 0
  /\ "handler" \in Range(trace)
  /\ delivered.status = 404

\* validation of the current request succeeded and the pipeline went on
Validated == "validate" \in Range(trace) /\ sentAt # "validate"

\* C14: after a successful validation the request holds the validator's
\* value: on GET /validation/users a page, limit or sort absent from the
\* querystring is 1, 10, 'desc', a page given as '2' is the number 2, and on
\* POST /validation/users a body without role has role 'user'; the handler
\* answers with these values.
C14_ValidatedValue ==
  /\ (Serving("validation.listUsers") /\ Validated) =>
       /\ {"page", "limit", "sort"} \subseteq DOMAIN request.query
       /\ "page" \notin DOMAIN request.rawQuery => request.query.page = 1
       /\ "limit" \notin DOMAIN request.rawQuery => request.query.limit = 10
       /\ "sort" \notin DOMAIN request.rawQuery => request.query.sort = "desc"
       /\ "page" \in DOMAIN request.rawQuery =>
            request.query.page = ToNumber(request.rawQuery.page)
       /\ "sort" \in DOMAIN request.rawQuery => request.query.sort = request.rawQuery.sort
       /\ delivered.done =>
            /\ delivered.body.value.pagination.page = request.query.page
            /\ delivered.body.value.pagination.limit = request.query.limit
            /\ delivered.body.value.pagination.sort = request.query.sort
  /\ (Serving("validation.createUser") /\ Validated) =>
       /\ "role" \in DOMAIN request.body.value
       /\ "role" \notin DOMAIN request.rawBody.value => request.body.value.role = "user"
       /\ "role" \in DOMAIN request.rawBody.value =>
            request.body.value.role = request.rawBody.value.role
       /\ delivered.done => delivered.body.value.user.role = request.body.value.role

C14_Witness ==
  /\ Serving("validation.listUsers")
  /\ request.rawQuery = EmptyObj
  /\ pc = "handler"
  /\ request.query = [page |-> 1, limit |-> 10, sort |-> "desc"]

KnownSerUser == FindIndex(SerUsers(secret), ToNumber(request.params.id)) # NOT_FOUND_INDEX

\* C15: the response schema is chosen by the status of the reply: GET
\* /serialization/users/:id answers an unknown id 404 with success and
\* error {code, message} as the 404 schema declares and a known id 200 with
\* success and the declared user fields; a status without a schema (the 400
\* of a malformed id, every reply of GET /serialization/no-schema) is written
\* as it is, password and internalNotes included.
C15_SchemaByStatus ==
  /\ (Serving("ser.user") /\ delivered.done /\ Validated) =>
       /\ delivered.status = IF KnownSerUser THEN 200 ELSE 404
       /\ delivered.status = 404 =>
            /\ delivered.body.value =
                 Serialize(ErrorResponseSchema,
                           [success |-> FALSE,
                            error |-> [code |-> "USER_NOT_FOUND",
                                       message |-> "user not found"]])
            /\ DOMAIN delivered.body.value = {"success", "error"}
            /\ DOMAIN delivered.body.value.error = {"code", "message"}
       /\ delivered.status = 200 =>
            /\ delivered.body.value =
                 Serialize(SingleUserResponseSchema,
                           [success |-> TRUE,
                            data |-> SerUsers(secret)[FindIndex(SerUsers(secret),
                                                               ToNumber(request.params.id))]])
            /\ DOMAIN delivered.body.value = {"success", "data"}
            /\ DOMAIN delivered.body.value.data = {"id", "name", "email", "role", "createdAt"}
  /\ (Serving("ser.user") /\ delivered.done /\ ~Validated) =>
       /\ delivered.status = 400
       /\ DOMAIN delivered.body.value = {"statusCode", "error", "message"}
  /\ (Serving("ser.noSchema") /\ delivered.done) =>
       /\ delivered.status = 200
       /\ delivered.body.value.user = SerUsers(secret)[1]
       /\ {"password", "internalNotes"} \subseteq DOMAIN delivered.body.value.user
       /\ delivered.body.value.user.password = secret

C15_Witness ==
  /\ Serving("ser.user")
  /\ pc = "finished"
  /\ request.params.id = "999"
  /\ delivered.status = 404
  /\ delivered.body.value.error.code = "USER_NOT_FOUND"

\* the onClose hooks in registration order
OnCloseRegistered ==
  LET idx == {i \in 1..Len(hooks) : hooks[i].stage = "onClose"}
      nth(k) == CHOOSE i \in idx : Cardinality({j \in idx : j < i}) = k - 1
  IN [k \in 1..Cardinality(idx) |-> hooks[nth(k)].id]

\* C16: no onClose function runs before close() is called; once it is, each
\* registered onClose function runs exactly once, the last registered first:
\* the lifecycle plugin's onClose runs before the database plugin's, which
\* closes the database client.
C16_CleanupOrder ==
  /\ ~closing => (closelog = <<>> /\ closeQ = <<>>)
  /\ \A x \in Range(closelog) : Count(closelog, x) = 1
  /\ Before(closelog, "lifecycle.onClose", "database.onClose")
  /\ Before(closelog, "lifecycle.onClose", "client.close")
  /\ Before(closelog, "database.onClose", "client.close")
  /\ closing =>
       /\ OnCloseRegistered = <<"database.onClose", "lifecycle.onClose">>
       /\ [i \in 1..Len(closelog) |-> closelog[i]] \o closeQ \in
            {<<"lifecycle.onClose", "database.onClose">>,
             <<"lifecycle.onClose", "database.onClose", "client.close">>}
       /\ closeQ = <<>> =>
            closelog = <<"lifecycle.onClose", "database.onClose", "client.close">>

C16_Witness ==
  /\ closing
  /\ closeQ = <<>>
  /\ closelog = <<"lifecycle.onClose", "database.onClose", "client.close">>
  /\ nreq >= 1
  /\ pc = "finished"

\* C17: childPlugin, registered on the /api scope right after
\* encapsulatedPlugin, resolves encapsulatedValue to the value that
\* encapsulatedPlugin decorated.
C17_ChildResolvesEncapsulated ==
  bootpc > 7 =>
    /\ "child" \in scopes
    /\ Resolve("child", "encapsulatedValue") = "encapsulated-value"

ValidAuthorization == request.auth = HeaderOf(Bearer \o ValidToken)

\* C18: the handler of GET /auth/protected runs only for a request whose
\* Authorization header is exactly 'Bearer valid-token', and then
\* request.user is set; with no header, another scheme or another token the
\* reply is 401 with an error body, the handler does not run and
\* request.user stays null.
C18_ProtectedNeedsToken ==
  Serving("auth.protected") =>
    /\ (pc = "handler" \/ "handler" \in Range(trace)) =>
         (ValidAuthorization /\ request.user = TestUser /\ ~request.user.isNull)
    /\ ~ValidAuthorization =>
         /\ request.user = UserDefault
         /\ pc # "handler"
         /\ delivered.done =>
              /\ delivered.status = 401
              /\ delivered.body.value.success = FALSE
              /\ "error" \in DOMAIN delivered.body.value
         /\ pc = "finished" => delivered.done
    /\ (ValidAuthorization /\ delivered.done) =>
         /\ delivered.status = 200
         /\ delivered.body.value.data.user = TestUser

C18_Witness ==
  /\ Serving("auth.protected")
  /\ request.auth = HeaderOf(Bearer \o ValidToken \o <<"x">>)
  /\ pc = "finished"
  /\ "handler" \notin Range(trace)
  /\ request.user = UserDefault
  /\ delivered.status = 401
  /\ delivered.body.value.error = "invalid token"

\* position of a hook function in the registration order, 0 for a route option
RegisteredAt(id) ==
  IF \E i \in 1..Len(hooks) : hooks[i].id = id
  THEN CHOOSE i \in 1..Len(hooks) : hooks[i].id = id
  ELSE 0

OnRequestHooksRun ==
  SelectSeq(hooklog, LAMBDA id : id \in {"lifecycle.onRequest", "users.onRequest",
                                          "auth.onRequest"})

\* C19: the hooks of a request run one after the other, those of the scopes
\* on the route's chain only, an outer scope's hook of a stage before an inner
\* one's and a scope hook before the route's own preHandler: on /users/... the
\* root onRequest hook runs before the /users one, and the /users and /auth
\* onRequest hooks run for no request matched in another scope.
C19_ScopeChainOrder ==
  pc # "idle" =>
    /\ \A i \in 1..Len(hooklog) :
         /\ RegisteredAt(hooklog[i]) # 0 =>
              IsDescendantOrSelf(parent, CurrentRoute.scope,
                                 hooks[RegisteredAt(hooklog[i])].scope)
         /\ \A j \in (i + 1)..Len(hooklog) :
              /\ hooklog[i] # hooklog[j]
              /\ (RegisteredAt(hooklog[i]) # 0 /\ RegisteredAt(hooklog[j]) # 0
                    /\ hooks[RegisteredAt(hooklog[i])].stage
                          = hooks[RegisteredAt(hooklog[j])].stage)
                   => RegisteredAt(hooklog[i]) < RegisteredAt(hooklog[j])
              /\ hooklog[j] = "lifecycle.preHandler" => RegisteredAt(hooklog[i]) # 0
    /\ "onRequest" \in Range(trace) =>
         OnRequestHooksRun =
           <<"lifecycle.onRequest">>
             \o (IF CurrentRoute.scope = "users" THEN <<"users.onRequest">>
                 ELSE IF CurrentRoute.scope = "auth" THEN <<"auth.onRequest">>
                 ELSE <<>>)
    /\ "users.onRequest" \in Range(hooklog) => request.path[1] = "users"
    /\ "auth.onRequest" \in Range(hooklog) => request.path[1] = "auth"

C19_Witness ==
  /\ Serving("users.get")
  /\ pc = "finished"
  /\ SubSeq(hooklog, 1, 2) = <<"lifecycle.onRequest", "users.onRequest">>
  /\ "auth.onRequest" \notin Range(hooklog)

\* C20: with every ready hook and handler eventually run, a request that
\* matched a route reaches the end of its pipeline, onResponse completed and
\* the reply sent, on every path: normal, early send in a hook, validation
\* failure, handler error, failed and successful authentication; no pipeline
\* is left waiting for a send or a done() that never comes.
C20_ReachesTerminal ==
  /\ [](pc # "hung")
  /\ (Matched /\ InFlight(pc)) ~> (pc = "finished" /\ reply.sent /\ delivered.done)

C20_Witness ==
  /\ Serving("auth.protected")
  /\ ValidAuthorization
  /\ pc = "finished"
  /\ pendingDone = "none"
  /\ reply.sent
  /\ trace[Len(trace)] = "onResponse"

UniquePostIds == \A i, j \in 1..Len(posts) : posts[i].id = posts[j].id => i = j

\* C21: whatever POST /posts, PUT, PATCH and DELETE /posts/:id requests were
\* served, starting from the posts 1, 2, 3, no two stored posts have the same
\* id, and the id POST /posts assigns is the id of no post already stored.
C21_UniquePostIds ==
  /\ []UniquePostIds
  /\ [][(pc = "handler" /\ Serving("posts.create") /\ request.body.defined)
          => \A i \in 1..Len(posts) : posts[i].id # posts'[Len(posts')].id]_vars

====
